---- MODULE Spec2Model ----
(***************************************************************************)
(* Threat tracking and victim selection of src/game/Combat/ThreatManager.  *)
(*                                                                         *)
(* One ThreatManager (the owner's) is modelled.  A HostileReference is     *)
(* identified by the unit it refers to (the manager keeps at most one      *)
(* reference per ObjectGuid).  Threat values are integers: the float       *)
(* comparisons against 1.1f and 1.3f are made on the exact ratios          *)
(* (10*c <= 11*v, 10*c > 13*v).                                            *)
(***************************************************************************)
EXTENDS Integers, Sequences, FiniteSets, TLC

\* ------------------------------------------------------------------ bounds
NumUnits == 2
MaxThreat == 2
MaxDelta == 3
MaxRefThreat == 6

Units == 1..NumUnits

\* --------------------------------------------------------- program values
NULL == 0
Owner == NumUnits + 1

STATE_SUPPRESSED == 0
STATE_NORMAL == 1

STATE_NONE == 0
STATE_DETAUNTED == 1
STATE_TAUNTED == 2
STATE_FIXATED == 9

VARIABLES mgr, world, last

vars == <<mgr, world, last>>

\* 2 * IN_MILLISECONDS
THREAT_UPDATE_INTERVAL == 2000

\* The manager after construction: both containers empty, no victim.
NewManager ==
    [refs |-> <<>>,
     iThreatContainer |-> <<>>,
     iThreatOfflineContainer |-> <<>>,
     iDirty |-> FALSE,
     iCurrentVictim |-> NULL,
     iUpdateTimer |-> THREAT_UPDATE_INTERVAL]

\* A reference as its constructor leaves it (the threat argument is always 0).
NewHostileReference ==
    [iThreat |-> 0,
     iFadeoutThreadReduction |-> 0,
     m_online |-> TRUE,
     m_suppresabilityToggle |-> FALSE,
     valid |-> TRUE,
     m_hostileState |-> STATE_NORMAL,
     m_tauntState |-> STATE_NONE]

HasRef(m, t) == t \in DOMAIN m.refs

SetField(m, t, r) == [m EXCEPT !.refs = [m.refs EXCEPT ![t] = r]]

\* std::list::remove / push_back of the two containers.
ListRemove(list, t) ==
    LET Keep(x) == x # t IN SelectSeq(list, Keep)

ListHas(list, t) == \E i \in 1..Len(list) : list[i] = t

setDirty(m, d) == [m EXCEPT !.iDirty = d]

setCurrentVictim(m, ref) == [m EXCEPT !.iCurrentVictim = ref]

RECURSIVE processThreatEvent(_, _, _, _, _)
RECURSIVE SetHostileState(_, _, _, _)
RECURSIVE ClearSuppressedFrom(_, _, _, _)

fireStatusChanged(m, type, t, fValue, supp) ==
    processThreatEvent(m, type, t, fValue, supp)

\* supp: the units for which owner->IsSuppressedTarget holds.
ClearSuppressedFrom(m, except, i, supp) ==
    IF i > Len(m.iThreatContainer) THEN m
    ELSE LET curRef == m.iThreatContainer[i]
             m1 == IF /\ m.refs[curRef].m_hostileState = STATE_SUPPRESSED
                      /\ curRef # except
                      /\ curRef \notin supp
                   THEN SetHostileState(m, curRef, STATE_NORMAL, supp)
                   ELSE m
         IN ClearSuppressedFrom(m1, except, i + 1, supp)

\* Variant: the status event resets every other suppressed reference, whether
\* or not the owner still holds its target for suppressed.
ClearSuppressed_IgnoresOwner(m, except, supp) == ClearSuppressedFrom(m, except, 1, {})

ClearSuppressed(m, except, supp) == ClearSuppressedFrom(m, except, 1, supp)

SetHostileState(m, t, state, supp) ==
    LET m1 == IF m.refs[t].m_hostileState # state
              THEN fireStatusChanged(
                       SetField(m, t, [m.refs[t] EXCEPT !.m_hostileState = state]),
                       "SUPPRESSED_STATUS", t, 0, supp)
              ELSE m
    IN SetField(m1, t, [m1.refs[t] EXCEPT !.m_suppresabilityToggle = FALSE])

OnThreatChange(m, t, fValue) ==
    IF \/ (m.iCurrentVictim = t /\ fValue < 0)
       \/ (m.iCurrentVictim # t /\ fValue > 0)
    THEN setDirty(m, TRUE)
    ELSE m

\* Variants of OnOnlineStatus: the victim is kept when it goes offline; a
\* reference coming online stays in the offline container as well; the victim
\* is cleared without marking the container dirty.
OnOnlineStatus_KeepsVictim(m, t) ==
    IF ~m.refs[t].m_online
    THEN [m EXCEPT !.iThreatContainer = ListRemove(@, t),
                   !.iThreatOfflineContainer = Append(@, t)]
    ELSE [m EXCEPT !.iThreatContainer = Append(@, t),
                   !.iThreatOfflineContainer = ListRemove(@, t)]

OnOnlineStatus_NoMove(m, t) ==
    IF ~m.refs[t].m_online
    THEN LET m1 == IF t = m.iCurrentVictim
                   THEN setDirty(setCurrentVictim(m, NULL), TRUE)
                   ELSE m
         IN [m1 EXCEPT !.iThreatContainer = ListRemove(@, t),
                       !.iThreatOfflineContainer = Append(@, t)]
    ELSE [m EXCEPT !.iThreatContainer = Append(@, t)]

OnOnlineStatus_NoDirty(m, t) ==
    IF ~m.refs[t].m_online
    THEN LET m1 == IF t = m.iCurrentVictim THEN setCurrentVictim(m, NULL) ELSE m
         IN [m1 EXCEPT !.iThreatContainer = ListRemove(@, t),
                       !.iThreatOfflineContainer = Append(@, t)]
    ELSE [m EXCEPT !.iThreatContainer = Append(@, t),
                   !.iThreatOfflineContainer = ListRemove(@, t)]

OnOnlineStatus(m, t) ==
    IF ~m.refs[t].m_online
    THEN LET m1 == IF t = m.iCurrentVictim
                   THEN setDirty(setCurrentVictim(m, NULL), TRUE)
                   ELSE m
         IN [m1 EXCEPT !.iThreatContainer = ListRemove(@, t),
                       !.iThreatOfflineContainer = Append(@, t)]
    ELSE LET m1 == IF /\ m.iCurrentVictim # NULL
                      /\ 10 * m.refs[t].iThreat > 11 * m.refs[m.iCurrentVictim].iThreat
                   THEN setDirty(m, TRUE)
                   ELSE m
         IN [m1 EXCEPT !.iThreatContainer = Append(@, t),
                       !.iThreatOfflineContainer = ListRemove(@, t)]

OnRemoveFromList(m, t) ==
    LET m1 == IF t = m.iCurrentVictim
              THEN setDirty(setCurrentVictim(m, NULL), TRUE)
              ELSE m
    IN IF m1.refs[t].m_online
       THEN [m1 EXCEPT !.iThreatContainer = ListRemove(@, t)]
       ELSE [m1 EXCEPT !.iThreatOfflineContainer = ListRemove(@, t)]

processThreatEvent(m, type, t, fValue, supp) ==
    CASE type = "THREAT_CHANGE" -> OnThreatChange(m, t, fValue)
      [] type = "ONLINE_STATUS" -> OnOnlineStatus(m, t)
      [] type = "REMOVE_FROM_LIST" -> OnRemoveFromList(m, t)
      [] type = "SUPPRESSED_STATUS" -> setDirty(ClearSuppressed(m, t, supp), TRUE)
      [] OTHER -> m

\* How deep the calls of processThreatEvent nest while the event type of
\* reference t is handled in m: 1 when the handler emits nothing, one more
\* than the deepest event emitted from inside it otherwise.
RECURSIVE DispatchDepth(_, _, _, _)
RECURSIVE ClearSuppressedDepth(_, _, _, _)

\* The deepest event emitted by the loop of ClearSuppressed from position i on.
ClearSuppressedDepth(m, except, i, supp) ==
    IF i > Len(m.iThreatContainer) THEN 0
    ELSE LET curRef == m.iThreatContainer[i]
             resets == /\ m.refs[curRef].m_hostileState = STATE_SUPPRESSED
                       /\ curRef # except
                       /\ curRef \notin supp
             here == IF resets
                     THEN DispatchDepth(
                              SetField(m, curRef,
                                       [m.refs[curRef] EXCEPT !.m_hostileState = STATE_NORMAL]),
                              "SUPPRESSED_STATUS", curRef, supp)
                     ELSE 0
             m1 == IF resets THEN SetHostileState(m, curRef, STATE_NORMAL, supp) ELSE m
             rest == ClearSuppressedDepth(m1, except, i + 1, supp)
         IN IF here > rest THEN here ELSE rest

DispatchDepth(m, type, t, supp) ==
    IF type = "SUPPRESSED_STATUS"
    THEN 1 + ClearSuppressedDepth(m, t, 1, supp)
    ELSE 1

\* The nesting of the dispatcher during HostileReference::SetHostileState.
SetHostileStateDepth(m, t, state, supp) ==
    IF m.refs[t].m_hostileState # state
    THEN DispatchDepth(SetField(m, t, [m.refs[t] EXCEPT !.m_hostileState = state]),
                       "SUPPRESSED_STATUS", t, supp)
    ELSE 0

\* Variant: the delta is applied without the floor at zero.
RefAddThreat_NoClamp(m, t, mod, supp) ==
    LET m1 == SetField(m, t, [m.refs[t] EXCEPT !.iThreat = @ + mod])
        m2 == IF m1.refs[t].m_suppresabilityToggle /\ mod # 0
              THEN SetHostileState(m1, t, STATE_NORMAL, supp)
              ELSE m1
    IN IF mod # 0
       THEN fireStatusChanged(m2, "THREAT_CHANGE", t, mod, supp)
       ELSE m2

\* Variant: an armed toggle clears the suppression on any call, whatever
\* the delta.
RefAddThreat_ClearsOnZero(m, t, mod, supp) ==
    LET delta == IF mod + m.refs[t].iThreat < 0 THEN -m.refs[t].iThreat ELSE mod
        m1 == SetField(m, t, [m.refs[t] EXCEPT !.iThreat = @ + delta])
        m2 == IF m1.refs[t].m_suppresabilityToggle
              THEN SetHostileState(m1, t, STATE_NORMAL, supp)
              ELSE m1
    IN IF delta # 0
       THEN fireStatusChanged(m2, "THREAT_CHANGE", t, delta, supp)
       ELSE m2

\* HostileReference::addThreat
RefAddThreat(m, t, mod, supp) ==
    LET delta == IF mod + m.refs[t].iThreat < 0 THEN -m.refs[t].iThreat ELSE mod
        m1 == SetField(m, t, [m.refs[t] EXCEPT !.iThreat = @ + delta])
        m2 == IF m1.refs[t].m_suppresabilityToggle /\ delta # 0
              THEN SetHostileState(m1, t, STATE_NORMAL, supp)
              ELSE m1
    IN IF delta # 0
       THEN fireStatusChanged(m2, "THREAT_CHANGE", t, delta, supp)
       ELSE m2

setOnlineOfflineState(m, t, isOnline, supp) ==
    IF m.refs[t].m_online # isOnline
    THEN fireStatusChanged(
             SetField(m, t, [m.refs[t] EXCEPT !.m_online = isOnline]),
             "ONLINE_STATUS", t, 0, supp)
    ELSE m

\* Variant: the cut link leaves the reference marked online, in the reachable
\* container.
sourceObjectDestroyLink_LeavesOnline(m, t, supp) == m

sourceObjectDestroyLink(m, t, supp) == setOnlineOfflineState(m, t, FALSE, supp)

\* Reference::invalidate: the link's destroy callback, then iRefTo = nullptr.
invalidate(m, t, supp) ==
    LET m1 == sourceObjectDestroyLink(m, t, supp)
    IN SetField(m1, t, [m1.refs[t] EXCEPT !.valid = FALSE])

removeReference(m, t, supp) ==
    fireStatusChanged(invalidate(m, t, supp), "REMOVE_FROM_LIST", t, 0, supp)

\* delete ref: the object is gone; a pointer still holding it dangles.
DeleteRef(m, t) ==
    [m EXCEPT !.refs = [u \in (DOMAIN m.refs) \ {t} |-> m.refs[u]]]

\* ------------------------------------------------------- ThreatContainer

getReferenceByTarget(list, victim) ==
    IF victim # NULL /\ ListHas(list, victim) THEN victim ELSE NULL

addReference(list, t) == Append(list, t)

\* HostileReference::addThreatPercent: a delta of pct percent of the value.
addThreatPercent(m, t, pct, supp) ==
    RefAddThreat(m, t, (m.refs[t].iThreat * pct) \div 100, supp)

ContainerAddThreat(m, list, victim, threat, supp) ==
    IF getReferenceByTarget(list, victim) # NULL
    THEN RefAddThreat(m, victim, threat, supp)
    ELSE m

\* Variant: the boundary -100 removes as well.
ContainerModifyThreatPercent_Inclusive(m, victim, threatPercent, supp) ==
    IF getReferenceByTarget(m.iThreatContainer, victim) # NULL
    THEN IF threatPercent <= -100
         THEN DeleteRef(removeReference(m, victim, supp), victim)
         ELSE addThreatPercent(m, victim, threatPercent, supp)
    ELSE m

ContainerModifyThreatPercent(m, victim, threatPercent, supp) ==
    IF getReferenceByTarget(m.iThreatContainer, victim) # NULL
    THEN IF threatPercent < -100
         THEN DeleteRef(removeReference(m, victim, supp), victim)
         ELSE addThreatPercent(m, victim, threatPercent, supp)
    ELSE m

RECURSIVE RemoveAllReferences(_, _)
RemoveAllReferences(m, supp) ==
    IF m.iThreatContainer = <<>> THEN m
    ELSE LET ref == Head(m.iThreatContainer)
         IN RemoveAllReferences(DeleteRef(removeReference(m, ref, supp), ref), supp)

RECURSIVE AddThreatPercentFrom(_, _, _, _)
AddThreatPercentFrom(m, i, threatPercent, supp) ==
    IF i > Len(m.iThreatContainer) THEN m
    ELSE AddThreatPercentFrom(
             addThreatPercent(m, m.iThreatContainer[i], threatPercent, supp),
             i + 1, threatPercent, supp)

\* Variant: the boundary -100 clears the container as well.
ContainerModifyAllThreatPercent_Inclusive(m, threatPercent, supp) ==
    IF threatPercent <= -100
    THEN RemoveAllReferences(m, supp)
    ELSE AddThreatPercentFrom(m, 1, threatPercent, supp)

ContainerModifyAllThreatPercent(m, threatPercent, supp) ==
    IF threatPercent < -100
    THEN RemoveAllReferences(m, supp)
    ELSE AddThreatPercentFrom(m, 1, threatPercent, supp)

\* ThreatContainer::clearReferences on both containers, ThreatManager::clearReferences.
clearReferences(m) == NewManager

\* The comparator of ThreatContainer::update: lhs sorts before rhs.
\* w is the world as the owner sees it during the call.
SortsBefore(m, w, force, isPlayer, lhs, rhs) ==
    LET L == m.refs[lhs]
        R == m.refs[rhs]
        playerDecides ==
            isPlayer /\ (\/ w.IsPlayer[lhs] # w.IsPlayer[rhs]
                         \/ w.CanAttack[lhs] # w.CanAttack[rhs])
        meleeDecides ==
            force /\ w.CanReachWithMeleeAttack[lhs] # w.CanReachWithMeleeAttack[rhs]
    IN IF playerDecides
       THEN IF w.IsPlayer[lhs] # w.IsPlayer[rhs]
            THEN w.IsPlayer[lhs]
            ELSE w.CanAttack[lhs]
       ELSE IF L.m_tauntState # R.m_tauntState
       THEN L.m_tauntState > R.m_tauntState
       ELSE IF meleeDecides
       THEN w.CanReachWithMeleeAttack[lhs]
       ELSE IF L.m_hostileState # R.m_hostileState
       THEN L.m_hostileState > R.m_hostileState
       ELSE L.iThreat > R.iThreat

\* std::list::sort is stable: x goes before the first element it sorts before.
RECURSIVE InsertSorted(_, _, _, _, _, _)
InsertSorted(m, w, force, isPlayer, sorted, x) ==
    IF sorted = <<>> THEN <<x>>
    ELSE IF SortsBefore(m, w, force, isPlayer, x, Head(sorted))
    THEN <<x>> \o sorted
    ELSE <<Head(sorted)>> \o InsertSorted(m, w, force, isPlayer, Tail(sorted), x)

RECURSIVE SortList(_, _, _, _, _)
SortList(m, w, force, isPlayer, list) ==
    IF list = <<>> THEN <<>>
    ELSE InsertSorted(m, w, force, isPlayer,
                      SortList(m, w, force, isPlayer, SubSeq(list, 1, Len(list) - 1)),
                      list[Len(list)])

\* Variant: the list is sorted only when it is dirty.
update_DirtyOnly(m, w, force, isPlayer) ==
    LET m1 == IF m.iDirty /\ Len(m.iThreatContainer) > 1
              THEN [m EXCEPT !.iThreatContainer = SortList(m, w, force, isPlayer, @)]
              ELSE m
    IN setDirty(m1, FALSE)

update(m, w, force, isPlayer) ==
    LET m1 == IF (m.iDirty \/ force \/ isPlayer) /\ Len(m.iThreatContainer) > 1
              THEN [m EXCEPT !.iThreatContainer = SortList(m, w, force, isPlayer, @)]
              ELSE m
    IN setDirty(m1, FALSE)

\* selectNextVictim switching to any candidate with more threat than the victim.
ScanStep_NoHysteresis(m, w, currentVictim, currentRef) ==
    LET suppressRanged == w.IsIgnoringRangedTargets
        currentVictimInMelee ==
            IF suppressRanged /\ currentVictim # NULL
            THEN w.CanReachWithMeleeAttack[currentVictim]
            ELSE TRUE
        isInMelee == w.CanReachWithMeleeAttack[currentRef]
        C == m.refs[currentRef]
        V == m.refs[currentVictim]
    IN IF ~C.valid THEN "assert"
       ELSE IF currentVictim # NULL
       THEN IF currentVictim = currentRef
            THEN IF suppressRanged /\ ~currentVictimInMelee THEN "skip" ELSE "accept"
            ELSE IF C.m_tauntState > V.m_tauntState THEN "accept"
            ELSE IF w.IsPlayer[currentRef] /\ ~w.IsPlayer[currentVictim] THEN "accept"
            ELSE IF suppressRanged /\ ~isInMelee THEN "skip"
            ELSE IF suppressRanged /\ ~currentVictimInMelee THEN "accept"
            ELSE IF C.m_hostileState > V.m_hostileState THEN "accept"
            ELSE IF C.iThreat <= V.iThreat THEN "keep"
            ELSE IF C.iThreat > V.iThreat
            THEN "accept"
            ELSE "skip"
       ELSE IF ~suppressRanged \/ isInMelee THEN "accept"
       ELSE "skip"

\* selectNextVictim without the 130% rule: only a candidate in melee reach takes over.
ScanStep_MeleeOnly(m, w, currentVictim, currentRef) ==
    LET suppressRanged == w.IsIgnoringRangedTargets
        currentVictimInMelee ==
            IF suppressRanged /\ currentVictim # NULL
            THEN w.CanReachWithMeleeAttack[currentVictim]
            ELSE TRUE
        isInMelee == w.CanReachWithMeleeAttack[currentRef]
        C == m.refs[currentRef]
        V == m.refs[currentVictim]
    IN IF ~C.valid THEN "assert"
       ELSE IF currentVictim # NULL
       THEN IF currentVictim = currentRef
            THEN IF suppressRanged /\ ~currentVictimInMelee THEN "skip" ELSE "accept"
            ELSE IF C.m_tauntState > V.m_tauntState THEN "accept"
            ELSE IF w.IsPlayer[currentRef] /\ ~w.IsPlayer[currentVictim] THEN "accept"
            ELSE IF suppressRanged /\ ~isInMelee THEN "skip"
            ELSE IF suppressRanged /\ ~currentVictimInMelee THEN "accept"
            ELSE IF C.m_hostileState > V.m_hostileState THEN "accept"
            ELSE IF 10 * C.iThreat <= 11 * V.iThreat THEN "keep"
            ELSE IF 10 * C.iThreat > 11 * V.iThreat /\ isInMelee
            THEN "accept"
            ELSE "skip"
       ELSE IF ~suppressRanged \/ isInMelee THEN "accept"
       ELSE "skip"

\* selectNextVictim without the 110% rule for candidates in melee reach.
ScanStep_No110(m, w, currentVictim, currentRef) ==
    LET suppressRanged == w.IsIgnoringRangedTargets
        currentVictimInMelee ==
            IF suppressRanged /\ currentVictim # NULL
            THEN w.CanReachWithMeleeAttack[currentVictim]
            ELSE TRUE
        isInMelee == w.CanReachWithMeleeAttack[currentRef]
        C == m.refs[currentRef]
        V == m.refs[currentVictim]
    IN IF ~C.valid THEN "assert"
       ELSE IF currentVictim # NULL
       THEN IF currentVictim = currentRef
            THEN IF suppressRanged /\ ~currentVictimInMelee THEN "skip" ELSE "accept"
            ELSE IF C.m_tauntState > V.m_tauntState THEN "accept"
            ELSE IF w.IsPlayer[currentRef] /\ ~w.IsPlayer[currentVictim] THEN "accept"
            ELSE IF suppressRanged /\ ~isInMelee THEN "skip"
            ELSE IF suppressRanged /\ ~currentVictimInMelee THEN "accept"
            ELSE IF C.m_hostileState > V.m_hostileState THEN "accept"
            ELSE IF 10 * C.iThreat <= 11 * V.iThreat THEN "keep"
            ELSE IF 10 * C.iThreat > 13 * V.iThreat
            THEN "accept"
            ELSE "skip"
       ELSE IF ~suppressRanged \/ isInMelee THEN "accept"
       ELSE "skip"

\* selectNextVictim without the taunt comparison.
ScanStep_NoTaunt(m, w, currentVictim, currentRef) ==
    LET suppressRanged == w.IsIgnoringRangedTargets
        currentVictimInMelee ==
            IF suppressRanged /\ currentVictim # NULL
            THEN w.CanReachWithMeleeAttack[currentVictim]
            ELSE TRUE
        isInMelee == w.CanReachWithMeleeAttack[currentRef]
        C == m.refs[currentRef]
        V == m.refs[currentVictim]
    IN IF ~C.valid THEN "assert"
       ELSE IF currentVictim # NULL
       THEN IF currentVictim = currentRef
            THEN IF suppressRanged /\ ~currentVictimInMelee THEN "skip" ELSE "accept"
            ELSE IF w.IsPlayer[currentRef] /\ ~w.IsPlayer[currentVictim] THEN "accept"
            ELSE IF suppressRanged /\ ~isInMelee THEN "skip"
            ELSE IF suppressRanged /\ ~currentVictimInMelee THEN "accept"
            ELSE IF C.m_hostileState > V.m_hostileState THEN "accept"
            ELSE IF 10 * C.iThreat <= 11 * V.iThreat THEN "keep"
            ELSE IF \/ 10 * C.iThreat > 13 * V.iThreat
                    \/ (10 * C.iThreat > 11 * V.iThreat /\ isInMelee)
            THEN "accept"
            ELSE "skip"
       ELSE IF ~suppressRanged \/ isInMelee THEN "accept"
       ELSE "skip"

\* Variant: with no current victim a reference is taken only in melee range,
\* whether or not the owner is restricted to melee-range targets.
ScanStep_AnyNeedsMelee(m, w, currentVictim, currentRef) ==
    LET suppressRanged == w.IsIgnoringRangedTargets
        currentVictimInMelee ==
            IF suppressRanged /\ currentVictim # NULL
            THEN w.CanReachWithMeleeAttack[currentVictim]
            ELSE TRUE
        isInMelee == w.CanReachWithMeleeAttack[currentRef]
        C == m.refs[currentRef]
        V == m.refs[currentVictim]
    IN IF ~C.valid THEN "assert"
       ELSE IF currentVictim # NULL
       THEN IF currentVictim = currentRef
            THEN IF suppressRanged /\ ~currentVictimInMelee THEN "skip" ELSE "accept"
            ELSE IF C.m_tauntState > V.m_tauntState THEN "accept"
            ELSE IF w.IsPlayer[currentRef] /\ ~w.IsPlayer[currentVictim] THEN "accept"
            ELSE IF suppressRanged /\ ~isInMelee THEN "skip"
            ELSE IF suppressRanged /\ ~currentVictimInMelee THEN "accept"
            ELSE IF C.m_hostileState > V.m_hostileState THEN "accept"
            ELSE IF 10 * C.iThreat <= 11 * V.iThreat THEN "keep"
            ELSE IF \/ 10 * C.iThreat > 13 * V.iThreat
                    \/ (10 * C.iThreat > 11 * V.iThreat /\ isInMelee)
            THEN "accept"
            ELSE "skip"
       ELSE IF isInMelee THEN "accept"
       ELSE "skip"

\* Variant: the current victim is passed over whenever the scan meets it, in
\* melee or not, so that it never keeps its place by being met.
ScanStep_PassesVictim(m, w, currentVictim, currentRef) ==
    LET suppressRanged == w.IsIgnoringRangedTargets
        currentVictimInMelee ==
            IF suppressRanged /\ currentVictim # NULL
            THEN w.CanReachWithMeleeAttack[currentVictim]
            ELSE TRUE
        isInMelee == w.CanReachWithMeleeAttack[currentRef]
        C == m.refs[currentRef]
        V == m.refs[currentVictim]
    IN IF ~C.valid THEN "assert"
       ELSE IF currentVictim # NULL
       THEN IF currentVictim = currentRef
            THEN "skip"
            ELSE IF C.m_tauntState > V.m_tauntState THEN "accept"
            ELSE IF w.IsPlayer[currentRef] /\ ~w.IsPlayer[currentVictim] THEN "accept"
            ELSE IF suppressRanged /\ ~isInMelee THEN "skip"
            ELSE IF suppressRanged /\ ~currentVictimInMelee THEN "accept"
            ELSE IF C.m_hostileState > V.m_hostileState THEN "accept"
            ELSE IF 10 * C.iThreat <= 11 * V.iThreat THEN "keep"
            ELSE IF \/ 10 * C.iThreat > 13 * V.iThreat
                    \/ (10 * C.iThreat > 11 * V.iThreat /\ isInMelee)
            THEN "accept"
            ELSE "skip"
       ELSE IF ~suppressRanged \/ isInMelee THEN "accept"
       ELSE "skip"

\* One iteration of the loop of selectNextVictim on currentRef:
\* "accept" (found, currentRef returned), "keep" (found, currentVictim
\* returned), "skip" (++iter), "assert" (MANGOS_ASSERT(target) fails).
ScanStep(m, w, currentVictim, currentRef) ==
    LET suppressRanged == w.IsIgnoringRangedTargets
        currentVictimInMelee ==
            IF suppressRanged /\ currentVictim # NULL
            THEN w.CanReachWithMeleeAttack[currentVictim]
            ELSE TRUE
        isInMelee == w.CanReachWithMeleeAttack[currentRef]
        C == m.refs[currentRef]
        V == m.refs[currentVictim]
    IN IF ~C.valid THEN "assert"
       ELSE IF currentVictim # NULL
       THEN IF currentVictim = currentRef
            THEN IF suppressRanged /\ ~currentVictimInMelee THEN "skip" ELSE "accept"
            ELSE IF C.m_tauntState > V.m_tauntState THEN "accept"
            ELSE IF w.IsPlayer[currentRef] /\ ~w.IsPlayer[currentVictim] THEN "accept"
            ELSE IF suppressRanged /\ ~isInMelee THEN "skip"
            ELSE IF suppressRanged /\ ~currentVictimInMelee THEN "accept"
            ELSE IF C.m_hostileState > V.m_hostileState THEN "accept"
            ELSE IF 10 * C.iThreat <= 11 * V.iThreat THEN "keep"
            ELSE IF \/ 10 * C.iThreat > 13 * V.iThreat
                    \/ (10 * C.iThreat > 11 * V.iThreat /\ isInMelee)
            THEN "accept"
            ELSE "skip"
       ELSE IF ~suppressRanged \/ isInMelee THEN "accept"
       ELSE "skip"

ASSERT_FAILED == -1

RECURSIVE ScanFrom(_, _, _, _)
ScanFrom(m, w, currentVictim, i) ==
    IF i > Len(m.iThreatContainer) THEN NULL
    ELSE LET currentRef == m.iThreatContainer[i]
             step == ScanStep(m, w, currentVictim, currentRef)
         IN CASE step = "accept" -> currentRef
              [] step = "keep" -> currentVictim
              [] step = "assert" -> ASSERT_FAILED
              [] OTHER -> ScanFrom(m, w, currentVictim, i + 1)

selectNextVictim(m, w, currentVictim) == ScanFrom(m, w, currentVictim, 1)

UpdateContainers(m, w) == update(m, w, w.IsIgnoringRangedTargets, w.OwnerIsPlayer)

\* selectNextVictim steps lastRef back from iThreatList.end() before the scan.
\* On an empty list that is undefined behaviour: the step is without effect
\* (lastRef is never read afterwards) or the program stops there (TRUE).
StepBackOutcomes(m) == IF m.iThreatContainer = <<>> THEN {FALSE, TRUE} ELSE {FALSE}

\* Variant: a scan that accepts nothing leaves the current victim in place.
getHostileTarget_KeepsStale(m, w) ==
    LET m1 == UpdateContainers(m, w)
        nextVictim == selectNextVictim(m1, w, m1.iCurrentVictim)
    IN IF nextVictim = NULL THEN m1 ELSE setCurrentVictim(m1, nextVictim)

\* ThreatManager::getHostileTarget; the returned unit is the new iCurrentVictim.
getHostileTarget(m, w) ==
    LET m1 == UpdateContainers(m, w)
    IN setCurrentVictim(m1, selectNextVictim(m1, w, m1.iCurrentVictim))

setCurrentVictimByTarget(m, target) ==
    IF m.iCurrentVictim # NULL /\ target = m.iCurrentVictim THEN m
    ELSE IF getReferenceByTarget(m.iThreatContainer, target) # NULL
    THEN setCurrentVictim(m, target)
    ELSE m


\* --------------------------------------------------------- ThreatManager

\* ThreatCalcHelper::CalcThreat.  e is what the units answer during the call;
\* spell is "none", "spell" or "no_threat" (SPELL_ATTR_EX_NO_THREAT).
CalcThreat(hatedUnit, threat, crit, spell, assist, e) ==
    IF threat = 0 THEN 0
    ELSE IF hatedUnit \in e.NoThreatState THEN 0
    ELSE IF e.OwnerIsPlayer THEN 0
    ELSE IF ~assist /\ hatedUnit \in e.SupportThreatOnly THEN 0
    ELSE LET modded == IF spell # "none"
                       THEN threat * e.SpellMod * (IF crit THEN e.CritMult ELSE 1)
                       ELSE threat
         IN modded * e.TotalThreatModifier

RECURSIVE addThreat(_, _, _, _, _, _, _)
RECURSIVE addThreatDirectly(_, _, _, _, _)

addThreatDirectly(m, victim, threat, noNew, e) ==
    IF getReferenceByTarget(m.iThreatContainer, victim) # NULL
    THEN ContainerAddThreat(m, m.iThreatContainer, victim, threat, e.Suppressed)
    ELSE IF getReferenceByTarget(m.iThreatOfflineContainer, victim) # NULL
    THEN ContainerAddThreat(m, m.iThreatOfflineContainer, victim, threat, e.Suppressed)
    ELSE IF noNew THEN m
    ELSE LET m1 == [m EXCEPT
                       !.refs = [u \in (DOMAIN m.refs) \cup {victim} |->
                                    IF u = victim THEN NewHostileReference
                                    ELSE m.refs[u]],
                       !.iThreatContainer = addReference(@, victim)]
             m2 == RefAddThreat(m1, victim, threat, e.Suppressed)
             victim_owner == e.Master[victim]
             m3 == IF /\ victim \in e.PropagatingThreatToOwner
                      /\ victim_owner # NULL
                      /\ victim_owner \in e.Alive
                      /\ victim_owner \in e.CanJoinInAttacking
                   THEN addThreat(m2, victim_owner, 0, FALSE, "none", FALSE, e)
                   ELSE m2
         IN IF victim \in e.OfflineTarget \/ victim \in e.GameMaster
            THEN setOnlineOfflineState(m3, victim, FALSE, e.Suppressed)
            ELSE m3

\* Variant: threat is added for an owner that is not alive.
addThreat_ForDeadOwner(m, victim, threat, crit, spell, assist, e) ==
    IF victim = Owner THEN m
    ELSE IF victim = NULL \/ victim \in e.GameMaster THEN m
    ELSE IF victim \notin e.Alive THEN m
    ELSE LET calculatedThreat == CalcThreat(victim, threat, crit, spell, assist, e)
             redirectedTarget == e.ThreatRedirectionTarget[victim]
             redirect == /\ calculatedThreat > 0
                         /\ ~e.IgnoringMisdirection
                         /\ redirectedTarget # NULL
                         /\ redirectedTarget # Owner
                         /\ redirectedTarget \in e.Alive
             m1 == IF redirect
                   THEN addThreatDirectly(m, redirectedTarget, calculatedThreat, FALSE, e)
                   ELSE m
         IN addThreatDirectly(m1, victim, IF redirect THEN 0 ELSE calculatedThreat,
                              spell = "no_threat", e)

\* Variant: the redirected amount is registered on the original target too.
addThreat_BothGain(m, victim, threat, crit, spell, assist, e) ==
    IF victim = Owner THEN m
    ELSE IF victim = NULL \/ victim \in e.GameMaster THEN m
    ELSE IF victim \notin e.Alive \/ Owner \notin e.Alive THEN m
    ELSE LET calculatedThreat == CalcThreat(victim, threat, crit, spell, assist, e)
             redirectedTarget == e.ThreatRedirectionTarget[victim]
             redirect == /\ calculatedThreat > 0
                         /\ ~e.IgnoringMisdirection
                         /\ redirectedTarget # NULL
                         /\ redirectedTarget # Owner
                         /\ redirectedTarget \in e.Alive
             m1 == IF redirect
                   THEN addThreatDirectly(m, redirectedTarget, calculatedThreat, FALSE, e)
                   ELSE m
         IN addThreatDirectly(m1, victim, calculatedThreat, spell = "no_threat", e)

addThreat(m, victim, threat, crit, spell, assist, e) ==
    IF victim = Owner THEN m
    ELSE IF victim = NULL \/ victim \in e.GameMaster THEN m
    ELSE IF victim \notin e.Alive \/ Owner \notin e.Alive THEN m
    ELSE LET calculatedThreat == CalcThreat(victim, threat, crit, spell, assist, e)
             redirectedTarget == e.ThreatRedirectionTarget[victim]
             redirect == /\ calculatedThreat > 0
                         /\ ~e.IgnoringMisdirection
                         /\ redirectedTarget # NULL
                         /\ redirectedTarget # Owner
                         /\ redirectedTarget \in e.Alive
             m1 == IF redirect
                   THEN addThreatDirectly(m, redirectedTarget, calculatedThreat, FALSE, e)
                   ELSE m
         IN addThreatDirectly(m1, victim, IF redirect THEN 0 ELSE calculatedThreat,
                              spell = "no_threat", e)

modifyThreatPercent(m, victim, threatPercent, supp) ==
    ContainerModifyThreatPercent(m, victim, threatPercent, supp)

modifyAllThreatPercent(m, threatPercent, supp) ==
    ContainerModifyAllThreatPercent(m, threatPercent, supp)

\* resolvable: ObjectAccessor::GetUnit finds the unit again;
\* offlineTarget: owner->IsOfflineTarget(target).
updateOnlineStatus(m, t, resolvable, offlineTarget, supp) ==
    LET m1 == IF ~m.refs[t].valid /\ resolvable
              THEN SetField(m, t, [m.refs[t] EXCEPT !.valid = TRUE])
              ELSE m
        online == m1.refs[t].valid /\ ~offlineTarget
    IN setOnlineOfflineState(m1, t, online, supp)

RECURSIVE RemoveEach(_, _, _)
RemoveEach(m, m_refs, supp) ==
    IF m_refs = <<>> THEN m
    ELSE RemoveEach(DeleteRef(removeReference(m, Head(m_refs), supp), Head(m_refs)),
                    Tail(m_refs), supp)

\* Variant: the sweep looks at the reachable container only.
DeleteOutOfRangeReferences_OnlineOnly(m, far, supp) ==
    LET OutOfRange(ref) == m.refs[ref].valid /\ ref \in far
    IN RemoveEach(m, SelectSeq(m.iThreatContainer, OutOfRange), supp)

\* far: the units farther than 60 yards from the owner.
DeleteOutOfRangeReferences(m, far, supp) ==
    LET OutOfRange(ref) == m.refs[ref].valid /\ ref \in far
    IN RemoveEach(m, SelectSeq(m.iThreatContainer, OutOfRange)
                     \o SelectSeq(m.iThreatOfflineContainer, OutOfRange), supp)

\* What a read through a null HostileReference* can hand back when it does not
\* stop the program.
AnyThreat == {-1, 0, 1}

\* ThreatManager::getThreat: the outcomes of the call.  Without a reference in
\* either container and with alsoSearchOfflineList set, the else branch calls
\* getThreat() on the null pointer the second lookup returns: undefined
\* behaviour, which stops the program (fault) or reads whatever lies there.
getThreat(m, victim, alsoSearchOfflineList) ==
    LET online == getReferenceByTarget(m.iThreatContainer, victim)
        ref == IF online = NULL /\ alsoSearchOfflineList
               THEN getReferenceByTarget(m.iThreatOfflineContainer, victim)
               ELSE online
    IN IF ref # NULL
       THEN {[fault |-> FALSE, threat |-> m.refs[ref].iThreat]}
       ELSE IF alsoSearchOfflineList
       THEN IF getReferenceByTarget(m.iThreatOfflineContainer, victim) # NULL
            THEN {[fault |-> FALSE,
                   threat |-> m.refs[getReferenceByTarget(m.iThreatOfflineContainer,
                                                          victim)].iThreat]}
            ELSE {[fault |-> TRUE, threat |-> 0]}
                 \cup {[fault |-> FALSE, threat |-> x] : x \in AnyThreat}
       ELSE {[fault |-> FALSE, threat |-> 0]}

HasThreat(m, victim, alsoSearchOfflineList) ==
    LET online == getReferenceByTarget(m.iThreatContainer, victim)
        ref == IF online = NULL /\ alsoSearchOfflineList
               THEN getReferenceByTarget(m.iThreatOfflineContainer, victim)
               ELSE online
    IN ref # NULL

isThreatListEmpty(m) == m.iThreatContainer = <<>>

\* Variant: the countdown runs and expires on an empty list as well.
isNeedUpdateToClient_IgnoresEmpty(m, time) ==
    IF time >= m.iUpdateTimer
    THEN [m |-> [m EXCEPT !.iUpdateTimer = THREAT_UPDATE_INTERVAL], ret |-> TRUE]
    ELSE [m |-> [m EXCEPT !.iUpdateTimer = @ - time], ret |-> FALSE]

\* ThreatManager::isNeedUpdateToClient: the manager it leaves and what it returns.
isNeedUpdateToClient(m, time) ==
    IF isThreatListEmpty(m) THEN [m |-> m, ret |-> FALSE]
    ELSE IF time >= m.iUpdateTimer
    THEN [m |-> [m EXCEPT !.iUpdateTimer = THREAT_UPDATE_INTERVAL], ret |-> TRUE]
    ELSE [m |-> [m EXCEPT !.iUpdateTimer = @ - time], ret |-> FALSE]

setFadeoutThreatReduction(m, t, value, supp) ==
    RefAddThreat(SetField(m, t, [m.refs[t] EXCEPT !.iFadeoutThreadReduction = value]),
                 t, value, supp)

resetFadeoutThreatReduction(m, t, supp) ==
    LET m1 == RefAddThreat(m, t, -m.refs[t].iFadeoutThreadReduction, supp)
    IN SetField(m1, t, [m1.refs[t] EXCEPT !.iFadeoutThreadReduction = 0])


\* ------------------------------------------------ the manager's operations

\* The call just made (Called, below): its name, the unit and the number it
\* was given, the threat its unit had before it (-1 without a reference, or
\* where the call reads none) and the victim it started from.
\* HostileReference::SetTauntState stores the rank.
SetTauntState(m, t, state) ==
    SetField(m, t, [m.refs[t] EXCEPT !.m_tauntState = state])

\* The rank the table of TauntUpdate holds for a caster: the auras are numbered
\* from STATE_TAUNTED on, a later aura of the same caster replaces the earlier.
TauntRankOf(tauntAuras, caster) ==
    LET at == {i \in 1..Len(tauntAuras) : tauntAuras[i] = caster}
        latest == CHOOSE i \in at : \A j \in at : j <= i
    IN STATE_TAUNTED + latest - 1

\* The loop of TauntUpdate over the reachable list, from position i on.
\* tauntAuras: the casters of the owner's taunt auras in the order of the aura
\* list; detaunted: the units with a detaunt aura cast by the owner.
RECURSIVE TauntUpdateFrom(_, _, _, _)
TauntUpdateFrom(m, i, tauntAuras, detaunted) ==
    IF i > Len(m.iThreatContainer) THEN m
    ELSE LET ref == m.iThreatContainer[i]
             m1 == IF m.refs[ref].m_tauntState = STATE_FIXATED THEN m
                   ELSE IF \E k \in 1..Len(tauntAuras) : tauntAuras[k] = ref
                   THEN SetTauntState(m, ref, TauntRankOf(tauntAuras, ref))
                   ELSE IF ref \in detaunted
                   THEN SetTauntState(m, ref, STATE_DETAUNTED)
                   ELSE SetTauntState(m, ref, STATE_NONE)
         IN TauntUpdateFrom(m1, i + 1, tauntAuras, detaunted)

\* Variant: the rank of a fixated reference follows the auras like any other.
TauntUpdate_OverFixation(m, tauntAuras, detaunted) ==
    LET Rank(ref) == IF \E k \in 1..Len(tauntAuras) : tauntAuras[k] = ref
                     THEN TauntRankOf(tauntAuras, ref)
                     ELSE IF ref \in detaunted THEN STATE_DETAUNTED ELSE STATE_NONE
    IN setDirty([m EXCEPT !.refs = [u \in DOMAIN m.refs |->
                     IF ListHas(m.iThreatContainer, u)
                     THEN [m.refs[u] EXCEPT !.m_tauntState = Rank(u)]
                     ELSE m.refs[u]]], TRUE)

TauntUpdate(m, tauntAuras, detaunted) ==
    setDirty(TauntUpdateFrom(m, 1, tauntAuras, detaunted), TRUE)

\* The loop of FixateTarget that takes the fixation from every other
\* reference of the reachable list.
RECURSIVE UnfixateFrom(_, _, _)
UnfixateFrom(m, i, fixateRef) ==
    IF i > Len(m.iThreatContainer) THEN m
    ELSE LET ref == m.iThreatContainer[i]
             m1 == IF ref # fixateRef /\ m.refs[ref].m_tauntState = STATE_FIXATED
                   THEN SetTauntState(m, ref, STATE_NONE)
                   ELSE m
         IN UnfixateFrom(m1, i + 1, fixateRef)

\* Variant: the fixation of the other references is left in place.
FixateTarget_KeepsOthers(m, victim, tauntAuras, detaunted) ==
    LET fixateRef == getReferenceByTarget(m.iThreatContainer, victim)
        m1 == IF fixateRef # NULL THEN SetTauntState(m, fixateRef, STATE_FIXATED) ELSE m
    IN TauntUpdate(m1, tauntAuras, detaunted)

FixateTarget(m, victim, tauntAuras, detaunted) ==
    LET fixateRef == getReferenceByTarget(m.iThreatContainer, victim)
        m1 == IF fixateRef # NULL THEN SetTauntState(m, fixateRef, STATE_FIXATED) ELSE m
    IN TauntUpdate(UnfixateFrom(m1, 1, fixateRef), tauntAuras, detaunted)

\* HostileReference::SetSuppressabilityToggle arms the toggle.
SetSuppressabilityToggle(m, t) ==
    SetField(m, t, [m.refs[t] EXCEPT !.m_suppresabilityToggle = TRUE])

SetTargetSuppressed(m, target, supp) ==
    LET ref == getReferenceByTarget(m.iThreatContainer, target)
    IN IF ref # NULL
       THEN SetSuppressabilityToggle(SetHostileState(m, ref, STATE_SUPPRESSED, supp), ref)
       ELSE m

ThreatOf(m, t) == IF HasRef(m, t) THEN m.refs[t].iThreat ELSE -1

ThreatBounded(m) == \A t \in DOMAIN m.refs : m.refs[t].iThreat <= MaxThreat

AllUnits == Units \cup {Owner}

NoOne == [u \in Units |-> NULL]

\* What the units answer while addThreat runs.
CalmEnv ==
    [Alive |-> AllUnits, GameMaster |-> {}, OfflineTarget |-> {},
     Master |-> NoOne, PropagatingThreatToOwner |-> Units,
     CanJoinInAttacking |-> AllUnits,
     ThreatRedirectionTarget |-> NoOne, IgnoringMisdirection |-> FALSE,
     NoThreatState |-> {}, OwnerIsPlayer |-> FALSE, SupportThreatOnly |-> {},
     SpellMod |-> 1, CritMult |-> 1, TotalThreatModifier |-> 1,
     Suppressed |-> {}]

Call(e, crit, spell, assist) == [e |-> e, crit |-> crit, spell |-> spell, assist |-> assist]

\* No fade-out reduction is being followed.
NoTrip == [base |-> -1, clamped |-> FALSE]

\* units: the set of units a call was given (the far ones of the distance
\* sweep, whose arg is the number of references it deleted); flag: the boolean
\* a call was given (alsoSearchOfflineList); ret: what a call with a boolean
\* result returned; fault: the call stopped the program (a null pointer
\* dereferenced, an iterator stepped back from the begin of its list); trip:
\* while a fade-out reduction is followed from its application to its reversal, the
\* threat the reference would hold without it and whether any delta since
\* its application stopped at zero.
Called(op, unit, arg, pre, victim) ==
    [op |-> op, unit |-> unit, arg |-> arg, pre |-> pre, victim |-> victim,
     units |-> {}, flag |-> FALSE, ret |-> FALSE, fault |-> FALSE, trip |-> NoTrip]

\* The calls of addThreat on victim that are tried: one circumstance at a time
\* departs from the calm one.
AddCalls(victim) ==
    LET others == AllUnits \ {victim}
    IN  {Call([CalmEnv EXCEPT !.OfflineTarget = o], FALSE, sp, FALSE) :
            o \in {{}, {victim}}, sp \in {"none", "no_threat"}}
        \cup {Call([CalmEnv EXCEPT !.Alive = AllUnits \ {u}], FALSE, "none", FALSE) :
                u \in {victim, Owner}}
        \cup {Call([CalmEnv EXCEPT !.GameMaster = {victim}], FALSE, "none", FALSE)}
        \cup {Call([CalmEnv EXCEPT !.Master = [NoOne EXCEPT ![victim] = v],
                                   !.OfflineTarget = IF off THEN {v} \cap Units ELSE {}],
                   FALSE, "none", FALSE) : v \in others, off \in BOOLEAN}
        \cup {Call([CalmEnv EXCEPT
                       !.Master = [x \in Units |-> IF x = victim THEN v ELSE victim],
                       !.CanJoinInAttacking = IF join THEN AllUnits ELSE AllUnits \ {v}],
                   FALSE, "none", FALSE) : v \in others \cap Units, join \in BOOLEAN}
        \cup {Call([CalmEnv EXCEPT
                       !.ThreatRedirectionTarget = [NoOne EXCEPT ![victim] = v],
                       !.IgnoringMisdirection = (how = "ignored"),
                       !.Alive = IF how = "dead" THEN AllUnits \ {v} ELSE AllUnits],
                   FALSE, "none", FALSE) :
                v \in others, how \in {"redirected", "ignored", "dead"}}
        \cup {Call([CalmEnv EXCEPT !.NoThreatState = {victim}], FALSE, "none", FALSE)}
        \cup {Call([CalmEnv EXCEPT !.SupportThreatOnly = {victim}], FALSE, "none", assist) :
                assist \in BOOLEAN}
        \cup {Call([CalmEnv EXCEPT !.OwnerIsPlayer = TRUE], FALSE, "none", FALSE)}
        \cup {Call([CalmEnv EXCEPT !.SpellMod = 2], FALSE, "spell", FALSE),
              Call([CalmEnv EXCEPT !.CritMult = 2], TRUE, "spell", FALSE),
              Call([CalmEnv EXCEPT !.CritMult = 2], TRUE, "none", FALSE),
              Call([CalmEnv EXCEPT !.TotalThreatModifier = 2], FALSE, "none", FALSE),
              Call([CalmEnv EXCEPT !.TotalThreatModifier = 0], FALSE, "none", FALSE)}

AddCallsOf ==
    [victim \in Units \cup {NULL, Owner} |->
        IF victim \in Units THEN AddCalls(victim)
        ELSE {Call(CalmEnv, FALSE, "none", FALSE)}]

RawThreats == {-1, 0, 1}

Percents == {-150, -100, -50, 0, 100}

\* The percentage is taken of values it divides, so that the integers are exact.
ExactPercent(m, list, pct) ==
    \A i \in 1..Len(list) : (m.refs[list[i]].iThreat * pct) % 100 = 0

\* The world as the owner sees it during getHostileTarget.
World(ranged, ownerPlayer, players, attackable, melee) ==
    [IsIgnoringRangedTargets |-> ranged,
     OwnerIsPlayer |-> ownerPlayer,
     IsPlayer |-> [u \in Units |-> u \in players],
     CanAttack |-> [u \in Units |-> u \in attackable],
     CanReachWithMeleeAttack |-> [u \in Units |-> u \in melee]]

QuietWorld == World(FALSE, FALSE, {}, Units, Units)

Worlds ==
    {World(FALSE, FALSE, p, Units, x) : p \in SUBSET Units, x \in {Units, {}}}
    \cup {World(TRUE, FALSE, {}, Units, x) : x \in SUBSET Units}
    \cup {World(FALSE, TRUE, p, a, Units) : p \in SUBSET Units, a \in SUBSET Units}

Init ==
    /\ mgr = NewManager
    /\ world = QuietWorld
    /\ last = Called("init", NULL, 0, -1, NULL)

AddThreat ==
    \E victim \in Units \cup {NULL, Owner}, threat \in RawThreats :
        \E c \in AddCallsOf[victim] :
            /\ mgr' = addThreat(mgr, victim, threat, c.crit, c.spell, c.assist, c.e)
            /\ ThreatBounded(mgr')
            /\ last' = Called("addThreat", victim, threat, -1, NULL)
            /\ UNCHANGED world

ModifyThreatPercent ==
    \E victim \in Units, pct \in Percents :
        /\ HasRef(mgr, victim) => ExactPercent(mgr, <<victim>>, pct)
        /\ mgr' = modifyThreatPercent(mgr, victim, pct, {})
        /\ ThreatBounded(mgr')
        /\ last' = Called("modifyThreatPercent", victim, pct, ThreatOf(mgr, victim), NULL)
        /\ UNCHANGED world

ModifyAllThreatPercent ==
    \E pct \in Percents :
        /\ ExactPercent(mgr, mgr.iThreatContainer, pct)
        /\ mgr' = modifyAllThreatPercent(mgr, pct, {})
        /\ ThreatBounded(mgr')
        /\ last' = Called("modifyAllThreatPercent", NULL, pct, -1, mgr.iCurrentVictim)
        /\ UNCHANGED world

UpdateOnlineStatus ==
    \E t \in DOMAIN mgr.refs, resolvable \in BOOLEAN, offlineTarget \in BOOLEAN :
        /\ mgr' = updateOnlineStatus(mgr, t, resolvable, offlineTarget, {})
        /\ last' = Called("updateOnlineStatus", t, IF mgr'.refs[t].m_online THEN 1 ELSE 0,
                        -1, mgr.iCurrentVictim)
        /\ UNCHANGED world

\* The target's side sets the state of a reference linked to it.
SetOnlineOfflineState ==
    \E t \in DOMAIN mgr.refs, isOnline \in BOOLEAN :
        /\ mgr.refs[t].valid
        /\ mgr' = setOnlineOfflineState(mgr, t, isOnline, {})
        /\ last' = Called("setOnlineOfflineState", t, IF isOnline THEN 1 ELSE 0,
                        -1, mgr.iCurrentVictim)
        /\ UNCHANGED world

\* The target is destroyed while the reference lives on in the manager.
TargetDestroyed ==
    \E t \in DOMAIN mgr.refs :
        /\ mgr.refs[t].valid
        /\ mgr' = invalidate(mgr, t, {})
        /\ last' = Called("invalidate", t, 0, -1, mgr.iCurrentVictim)
        /\ UNCHANGED world

\* removeReference and the delete its callers let follow.
RemoveReference ==
    \E t \in DOMAIN mgr.refs :
        /\ mgr' = DeleteRef(removeReference(mgr, t, {}), t)
        /\ last' = Called("removeReference", t, 0, -1, mgr.iCurrentVictim)
        /\ UNCHANGED world

DeleteOutOfRange ==
    \E far \in SUBSET Units :
        /\ mgr' = DeleteOutOfRangeReferences(mgr, far, {})
        /\ last' = [Called("DeleteOutOfRangeReferences", NULL,
                           Cardinality((DOMAIN mgr.refs) \ DOMAIN mgr'.refs), -1, NULL)
                        EXCEPT !.units = far]
        /\ UNCHANGED world

\* getHostileTarget in any world; a scan that would fail its assertion is not
\* started here, and the step back of selectNextVictim may stop the call.
GetHostileTarget ==
    \E w \in Worlds, fault \in StepBackOutcomes(mgr) :
        /\ selectNextVictim(UpdateContainers(mgr, w), w, mgr.iCurrentVictim) # ASSERT_FAILED
        /\ mgr' = IF fault THEN UpdateContainers(mgr, w) ELSE getHostileTarget(mgr, w)
        /\ last' = [Called("getHostileTarget", mgr'.iCurrentVictim, 0, -1, mgr.iCurrentVictim)
                        EXCEPT !.fault = fault]
        /\ UNCHANGED world

SetCurrentVictimByTarget ==
    \E target \in Units \cup {NULL} :
        /\ mgr' = setCurrentVictimByTarget(mgr, target)
        /\ last' = Called("setCurrentVictimByTarget", target, 0, -1, mgr.iCurrentVictim)
        /\ UNCHANGED world

ClearReferences ==
    /\ mgr' = clearReferences(mgr)
    /\ last' = Called("clearReferences", NULL, 0, -1, NULL)
    /\ UNCHANGED world

Next ==
    \/ AddThreat
    \/ ModifyThreatPercent
    \/ ModifyAllThreatPercent
    \/ UpdateOnlineStatus
    \/ SetOnlineOfflineState
    \/ TargetDestroyed
    \/ RemoveReference
    \/ DeleteOutOfRange
    \/ GetHostileTarget
    \/ SetCurrentVictimByTarget
    \/ ClearReferences

Spec == Init /\ [][Next]_vars


\* ------------------------------------------------------------ properties

Online(t) == ListHas(mgr.iThreatContainer, t)
Offline(t) == ListHas(mgr.iThreatOfflineContainer, t)
Members(list) == {list[i] : i \in 1..Len(list)}

\* C2: the current victim is null or a live reference that is a member of the
\* reachable (online) container.
C2_VictimIsReachable ==
    \/ mgr.iCurrentVictim = NULL
    \/ (HasRef(mgr, mgr.iCurrentVictim) /\ Online(mgr.iCurrentVictim))

\* The reference that was the victim has just been removed and destroyed while
\* another one is still reachable.
C2_Witness ==
    /\ last.op = "removeReference"
    /\ last.victim = last.unit
    /\ ~HasRef(mgr, last.unit)
    /\ mgr.iThreatContainer # <<>>

\* C3: every live reference is in exactly one of the two containers, and in the
\* reachable one exactly when its online flag is set; the containers hold
\* nothing but live references.
C3_ExactlyOneContainer ==
    /\ \A t \in DOMAIN mgr.refs :
          /\ Online(t) # Offline(t)
          /\ Online(t) = mgr.refs[t].m_online
    /\ Members(mgr.iThreatContainer) \cup Members(mgr.iThreatOfflineContainer)
          \subseteq DOMAIN mgr.refs

\* The target of the victim (an online reference) has been destroyed: the
\* reference is now in the unreachable container, another one in the reachable.
C3_Witness ==
    /\ last.op = "invalidate"
    /\ last.victim = last.unit
    /\ Offline(last.unit) /\ ~Online(last.unit)
    /\ ~mgr.refs[last.unit].m_online
    /\ mgr.iThreatContainer # <<>>


\* C8 as the claim states it: modifyAllThreatPercent(pct) with pct <= -100 leaves the
\* reachable container empty and the current victim null.
C8_AsStated ==
    (last.op = "modifyAllThreatPercent" /\ last.arg <= -100)
        => (mgr.iThreatContainer = <<>> /\ mgr.iCurrentVictim = NULL)

\* C8: modifyAllThreatPercent(pct) with pct < -100 removes and destroys
\* every reference of the reachable container, leaving it empty and the current
\* victim null; with pct = -100 it removes nothing: every reference stays where
\* it was, the reachable ones with threat 0.
C8_ModifyAllBelowMinus100 ==
    [][last'.op = "modifyAllThreatPercent" =>
          IF last'.arg < -100
          THEN /\ mgr'.iThreatContainer = <<>>
               /\ mgr'.iCurrentVictim = NULL
               /\ DOMAIN mgr'.refs = (DOMAIN mgr.refs) \ Members(mgr.iThreatContainer)
               /\ mgr'.iThreatOfflineContainer = mgr.iThreatOfflineContainer
          ELSE /\ mgr'.iThreatContainer = mgr.iThreatContainer
               /\ mgr'.iThreatOfflineContainer = mgr.iThreatOfflineContainer
               /\ DOMAIN mgr'.refs = DOMAIN mgr.refs
               /\ mgr'.iCurrentVictim = mgr.iCurrentVictim
               /\ last'.arg = -100 =>
                     \A t \in Members(mgr.iThreatContainer) : mgr'.refs[t].iThreat = 0
    ]_vars

\* A call below -100 has emptied a container that held the victim; a call with
\* exactly -100 has left a victim with threat 0 in place.
C8_Witness ==
    /\ last.op = "modifyAllThreatPercent"
    /\ last.victim # NULL
    /\ \/ (last.arg < -100 /\ mgr.iThreatContainer = <<>>
             /\ mgr.iThreatOfflineContainer # <<>>)
       \/ (last.arg = -100 /\ mgr.iCurrentVictim = last.victim
             /\ Len(mgr.iThreatContainer) > 1)

\* C9 as the claim states it: modifyThreatPercent(t, pct) on a target with a reference
\* removes it when pct <= -100, and otherwise keeps it with its value scaled by
\* (1 + pct/100).
C9_AsStated ==
    (last.op = "modifyThreatPercent" /\ last.pre >= 0)
        => IF last.arg <= -100
           THEN ~HasRef(mgr, last.unit)
           ELSE /\ HasRef(mgr, last.unit)
                /\ 100 * mgr.refs[last.unit].iThreat = last.pre * (100 + last.arg)

\* C9: modifyThreatPercent(t, pct) acts on a reference of the reachable
\* container only: it removes it when pct < -100, and scales its value by
\* (1 + pct/100) when pct >= -100 (to 0 at -100); a reference in the
\* unreachable container stays as it is.
C9_ModifyBelowMinus100 ==
    (last.op = "modifyThreatPercent" /\ last.pre >= 0)
        => IF HasRef(mgr, last.unit)
           THEN IF mgr.refs[last.unit].m_online
                THEN /\ last.arg >= -100
                     /\ 100 * mgr.refs[last.unit].iThreat = last.pre * (100 + last.arg)
                ELSE mgr.refs[last.unit].iThreat = last.pre
           ELSE last.arg < -100

\* A reference with threat has been removed by a percentage below -100, or
\* brought to 0 and kept by -100, or halved.
C9_Witness ==
    /\ last.op = "modifyThreatPercent" /\ last.pre > 0
    /\ \/ (last.arg < -100 /\ ~HasRef(mgr, last.unit))
       \/ (last.arg = -100 /\ HasRef(mgr, last.unit) /\ Online(last.unit)
             /\ mgr.refs[last.unit].iThreat = 0)

\* The calls that are one setOnlineOfflineState on an existing reference.
OnlineCalls == {"setOnlineOfflineState", "updateOnlineStatus", "invalidate"}

\* C10: when a reference goes from online to offline, it moves from the
\* reachable to the unreachable container; if it was the current victim, the
\* victim is null and the reachable container dirty afterwards; if it was not,
\* the victim is unchanged.
C10_OfflineClearsVictim ==
    [][\A t \in DOMAIN mgr.refs :
          (last'.op \in OnlineCalls /\ last'.unit = t
             /\ mgr.refs[t].m_online /\ ~mgr'.refs[t].m_online)
          => /\ ~ListHas(mgr'.iThreatContainer, t)
             /\ ListHas(mgr'.iThreatOfflineContainer, t)
             /\ IF mgr.iCurrentVictim = t
                THEN mgr'.iCurrentVictim = NULL /\ mgr'.iDirty
                ELSE mgr'.iCurrentVictim = mgr.iCurrentVictim
    ]_vars

\* The victim of a clean container has gone offline, with another reference
\* left behind.
C10_Witness ==
    /\ last.op = "setOnlineOfflineState" /\ last.arg = 0
    /\ last.victim = last.unit
    /\ Offline(last.unit)
    /\ mgr.iCurrentVictim = NULL /\ mgr.iDirty
    /\ mgr.iThreatContainer # <<>>


\* ------------------------------------------- one reference and its deltas

Deltas == (-MaxDelta)..MaxDelta

TheUnit == CHOOSE u \in Units : \A v \in Units : u <= v

RefThreatBounded(m) == \A t \in DOMAIN m.refs : m.refs[t].iThreat <= MaxRefThreat

RefManagerAddThreat ==
    \E threat \in Deltas :
        /\ mgr' = addThreat(mgr, TheUnit, threat, FALSE, "none", FALSE, CalmEnv)
        /\ RefThreatBounded(mgr')
        /\ last' = Called("addThreat", TheUnit, threat, ThreatOf(mgr, TheUnit), NULL)
        /\ UNCHANGED world

RefAddThreatCall ==
    \E mod \in Deltas :
        /\ HasRef(mgr, TheUnit)
        /\ mgr' = RefAddThreat(mgr, TheUnit, mod, {})
        /\ RefThreatBounded(mgr')
        /\ last' = Called("HostileReference::addThreat", TheUnit, mod,
                        ThreatOf(mgr, TheUnit), NULL)
        /\ UNCHANGED world

RefSetFadeout ==
    \E value \in Deltas :
        /\ HasRef(mgr, TheUnit)
        /\ mgr' = setFadeoutThreatReduction(mgr, TheUnit, value, {})
        /\ RefThreatBounded(mgr')
        /\ last' = Called("setFadeoutThreatReduction", TheUnit, value,
                        ThreatOf(mgr, TheUnit), NULL)
        /\ UNCHANGED world

\* last.arg is the delta the call hands to addThreat.
RefResetFadeout ==
    /\ HasRef(mgr, TheUnit)
    /\ mgr' = resetFadeoutThreatReduction(mgr, TheUnit, {})
    /\ RefThreatBounded(mgr')
    /\ last' = Called("resetFadeoutThreatReduction", TheUnit,
                    -mgr.refs[TheUnit].iFadeoutThreadReduction,
                    ThreatOf(mgr, TheUnit), NULL)
    /\ UNCHANGED world

RefSetOnlineOfflineState ==
    \E isOnline \in BOOLEAN :
        /\ HasRef(mgr, TheUnit)
        /\ mgr' = setOnlineOfflineState(mgr, TheUnit, isOnline, {})
        /\ last' = Called("setOnlineOfflineState", TheUnit, IF isOnline THEN 1 ELSE 0,
                        -1, NULL)
        /\ UNCHANGED world

NextRef ==
    \/ RefManagerAddThreat
    \/ RefAddThreatCall
    \/ RefSetFadeout
    \/ RefResetFadeout
    \/ RefSetOnlineOfflineState

SpecRef == Init /\ [][NextRef]_vars

DeltaCalls ==
    {"addThreat", "HostileReference::addThreat",
     "setFadeoutThreatReduction", "resetFadeoutThreatReduction"}

\* C1: no reference ever stores a negative threat; a delta applied to a
\* reference with value v leaves v + delta, or exactly 0 when v + delta < 0.
C1_ThreatNeverNegative ==
    /\ \A t \in DOMAIN mgr.refs : mgr.refs[t].iThreat >= 0
    /\ (last.op \in DeltaCalls /\ last.pre >= 0)
          => mgr.refs[last.unit].iThreat =
                IF last.arg + last.pre < 0 THEN 0 ELSE last.pre + last.arg

\* A fade-out reduction larger than the value has been applied, and a reset has
\* taken more than was left.
C1_Witness ==
    /\ last.op \in {"setFadeoutThreatReduction", "resetFadeoutThreatReduction"}
    /\ last.pre > 0
    /\ last.arg + last.pre < 0
    /\ mgr.refs[last.unit].iThreat = 0


\* ------------------------------------------------- selection on its own

\* The threat values selection is tried on: a victim's 100 against 105 (within
\* 110%), 115 (between 110% and 130%) and 135 (above 130%).
SelThreats == {100, 105, 115, 135}

\* The units whose rank, state and kind vary; the others are plain bystanders
\* (any threat, in or out of melee reach).
Cast == {1, 2} \cap Units

\* A manager as getHostileTarget can find it: k references in the reachable
\* container in any stored order (units are named by their place), any of them
\* or none the victim, the container dirty or not.
InitSelect ==
    \E k \in 0..NumUnits :
    \E threat \in [1..k -> SelThreats],
       taunted \in SUBSET (Cast \cap 1..k),
       suppressed \in SUBSET (Cast \cap 1..k),
       victim \in 0..k,
       dirty \in BOOLEAN :
    \E ranged \in BOOLEAN,
       ownerPlayer \in BOOLEAN,
       players \in SUBSET (Cast \cap 1..k),
       melee \in SUBSET (1..k) :
    \E attackable \in IF ownerPlayer
                      THEN {Units \ x : x \in SUBSET (Cast \cap 1..k)}
                      ELSE {Units} :
        /\ mgr = [refs |-> [u \in 1..k |->
                              [NewHostileReference EXCEPT
                                  !.iThreat = threat[u],
                                  !.m_tauntState =
                                      IF u \in taunted THEN STATE_TAUNTED ELSE STATE_NONE,
                                  !.m_hostileState =
                                      IF u \in suppressed THEN STATE_SUPPRESSED
                                      ELSE STATE_NORMAL]],
                  iThreatContainer |-> [i \in 1..k |-> i],
                  iThreatOfflineContainer |-> <<>>,
                  iDirty |-> dirty,
                  iCurrentVictim |-> victim,
                  iUpdateTimer |-> THREAT_UPDATE_INTERVAL]
        /\ world = World(ranged, ownerPlayer, players, attackable, melee)
        /\ last = Called("init", NULL, 0, -1, NULL)

\* getHostileTarget on the manager drawn; arg: 1 when the call follows another
\* call with nothing in between, else 0.
SelGetHostileTarget ==
    \E fault \in StepBackOutcomes(mgr) :
        /\ selectNextVictim(UpdateContainers(mgr, world), world, mgr.iCurrentVictim)
              # ASSERT_FAILED
        /\ mgr' = IF fault THEN UpdateContainers(mgr, world)
                           ELSE getHostileTarget(mgr, world)
        /\ last' = [Called("getHostileTarget", mgr'.iCurrentVictim,
                            IF last.op = "getHostileTarget" THEN 1 ELSE 0,
                            -1, mgr.iCurrentVictim)
                        EXCEPT !.fault = fault]
        /\ UNCHANGED world

NextSelect == SelGetHostileTarget

SpecSelect == InitSelect /\ [][NextSelect]_vars


\* --------------------------------------- properties of the selection

\* After a call of getHostileTarget: the list as the scan walked it, the victim
\* v the call started with, and the reference it returned.
Scanned == mgr.iThreatContainer
Selected == mgr.iCurrentVictim
HadVictim == last.op = "getHostileTarget" /\ last.victim # NULL

\* The scan reached position i: every earlier entry was passed over.
Reached(i) ==
    \A j \in 1..(i - 1) : ScanStep(mgr, world, last.victim, Scanned[j]) = "skip"

\* Position i holds the first candidate other than the victim.
FirstDiffering(i) ==
    /\ Scanned[i] # last.victim
    /\ \A j \in 1..(i - 1) : Scanned[j] = last.victim

SameStanding(c, v) ==
    /\ mgr.refs[c].m_tauntState = mgr.refs[v].m_tauntState
    /\ world.IsPlayer[c] = world.IsPlayer[v]
    /\ mgr.refs[c].m_hostileState = mgr.refs[v].m_hostileState

InMelee(u) == world.CanReachWithMeleeAttack[u]
MeleePreferred(c, v) == world.IsIgnoringRangedTargets /\ InMelee(c) /\ ~InMelee(v)
MeleeSkipped(c) == world.IsIgnoringRangedTargets /\ ~InMelee(c)

Within110(c, v) == 10 * mgr.refs[c].iThreat <= 11 * mgr.refs[v].iThreat
Above130(c, v) == 10 * mgr.refs[c].iThreat > 13 * mgr.refs[v].iThreat

\* C4 as the claim states it: the first differing candidate c the scan reaches,
\* of the victim's standing, not preferred by the melee restriction and with
\* c.threat <= 1.1 * v.threat, makes the call return v.
C4_AsStated ==
    HadVictim =>
        \A i \in 1..Len(Scanned) :
            ( /\ FirstDiffering(i) /\ Reached(i)
              /\ SameStanding(Scanned[i], last.victim)
              /\ ~MeleePreferred(Scanned[i], last.victim)
              /\ Within110(Scanned[i], last.victim) )
            => Selected = last.victim

\* C4: hysteresis keep rule. When the first differing candidate c the scan
\* reaches has the victim's taunt rank, player status and hostile state, is
\* neither skipped nor preferred by the melee restriction, and has
\* c.threat <= 1.1 * v.threat, the scan stops at c and v is returned.
C4_KeepWithin110 ==
    HadVictim =>
        \A i \in 1..Len(Scanned) :
            ( /\ FirstDiffering(i) /\ Reached(i)
              /\ SameStanding(Scanned[i], last.victim)
              /\ ~MeleePreferred(Scanned[i], last.victim)
              /\ ~MeleeSkipped(Scanned[i])
              /\ Within110(Scanned[i], last.victim) )
            => /\ ScanStep(mgr, world, last.victim, Scanned[i]) = "keep"
               /\ Selected = last.victim

\* The candidate stands before the victim in the list, has more threat than the
\* victim but no more than 110% of it, and the victim is kept.
C4_Witness ==
    /\ HadVictim
    /\ Len(Scanned) >= 2
    /\ FirstDiffering(1)
    /\ SameStanding(Scanned[1], last.victim)
    /\ ~MeleePreferred(Scanned[1], last.victim)
    /\ ~MeleeSkipped(Scanned[1])
    /\ Within110(Scanned[1], last.victim)
    /\ mgr.refs[Scanned[1]].iThreat > mgr.refs[last.victim].iThreat
    /\ Selected = last.victim

\* C5 as the claim states it: a reached candidate of the victim's standing with
\* c.threat > 1.3 * v.threat is selected whether or not it is in melee reach.
C5_AsStated ==
    HadVictim =>
        \A i \in 1..Len(Scanned) :
            ( /\ Scanned[i] # last.victim /\ Reached(i)
              /\ SameStanding(Scanned[i], last.victim)
              /\ Above130(Scanned[i], last.victim) )
            => Selected = Scanned[i]

\* C5: 130% rule. A reached candidate c of the victim's standing with
\* c.threat > 1.3 * v.threat is selected, in melee reach or not, unless the
\* attacker ignores ranged targets and c is out of melee reach.
C5_SwitchAbove130 ==
    HadVictim =>
        \A i \in 1..Len(Scanned) :
            ( /\ Scanned[i] # last.victim /\ Reached(i)
              /\ SameStanding(Scanned[i], last.victim)
              /\ ~MeleeSkipped(Scanned[i])
              /\ Above130(Scanned[i], last.victim) )
            => Selected = Scanned[i]

\* A candidate out of melee reach with more than 130% of the victim's threat
\* took over from a victim in melee reach.
C5_Witness ==
    /\ HadVictim
    /\ Selected \notin {NULL, last.victim}
    /\ SameStanding(Selected, last.victim)
    /\ Above130(Selected, last.victim)
    /\ ~InMelee(Selected)
    /\ InMelee(last.victim)

\* C6 as the claim states it: a reached candidate c of the victim's standing
\* with 1.1 * v.threat < c.threat <= 1.3 * v.threat is selected if it is in
\* melee reach; if not, the scan goes past it and returns the victim or another
\* qualifying candidate.
C6_AsStated ==
    HadVictim =>
        \A i \in 1..Len(Scanned) :
            ( /\ Scanned[i] # last.victim /\ Reached(i)
              /\ SameStanding(Scanned[i], last.victim)
              /\ ~Within110(Scanned[i], last.victim)
              /\ ~Above130(Scanned[i], last.victim) )
            => IF InMelee(Scanned[i])
               THEN Selected = Scanned[i]
               ELSE Selected \notin {Scanned[i], NULL}

\* C6: 110% melee rule. A reached candidate c of the victim's standing with
\* 1.1 * v.threat < c.threat <= 1.3 * v.threat is selected if it is in melee
\* reach; if not, the scan goes past it and returns the victim or another
\* qualifying candidate, or nobody when the attacker ignores ranged targets
\* and the victim is out of melee reach as well.
C6_SwitchAbove110InMelee ==
    HadVictim =>
        \A i \in 1..Len(Scanned) :
            ( /\ Scanned[i] # last.victim /\ Reached(i)
              /\ SameStanding(Scanned[i], last.victim)
              /\ ~Within110(Scanned[i], last.victim)
              /\ ~Above130(Scanned[i], last.victim) )
            => IF InMelee(Scanned[i])
               THEN Selected = Scanned[i]
               ELSE /\ Selected # Scanned[i]
                    /\ ScanStep(mgr, world, last.victim, Scanned[i]) = "skip"
                    /\ Selected = NULL => MeleeSkipped(last.victim)
                    /\ (Len(Scanned) = 2 /\ ~MeleeSkipped(last.victim))
                          => Selected = last.victim

\* A candidate between 110% and 130% of the victim's threat, out of melee
\* reach and before the victim in the list, was passed over and the victim kept.
C6_Witness ==
    /\ HadVictim
    /\ Len(Scanned) >= 2
    /\ Scanned[1] # last.victim
    /\ SameStanding(Scanned[1], last.victim)
    /\ ~Within110(Scanned[1], last.victim)
    /\ ~Above130(Scanned[1], last.victim)
    /\ ~InMelee(Scanned[1])
    /\ Selected = last.victim

\* t is the one reference of the reachable container whose taunt rank is above
\* that of every other.
TopTaunt(m, t) ==
    /\ ListHas(m.iThreatContainer, t)
    /\ \A u \in Members(m.iThreatContainer) \ {t} :
          m.refs[t].m_tauntState > m.refs[u].m_tauntState

Without(list, gone) ==
    LET Stays(x) == x \notin gone IN SelectSeq(list, Stays)

\* C11: DeleteOutOfRangeReferences removes every reference whose target is
\* farther than the maximum distance from the container that holds it,
\* reachable or not, whatever its threat, so that the target is tracked in
\* neither container afterwards; the references of the other targets stay
\* where they are, in the same order and with the same values.
C11_SweepRemovesFar ==
    [][last'.op = "DeleteOutOfRangeReferences" =>
          LET gone == {t \in DOMAIN mgr.refs : mgr.refs[t].valid /\ t \in last'.units}
          IN /\ DOMAIN mgr'.refs = (DOMAIN mgr.refs) \ gone
             /\ \A t \in gone : /\ ~ListHas(mgr'.iThreatContainer, t)
                                /\ ~ListHas(mgr'.iThreatOfflineContainer, t)
             /\ \A t \in (DOMAIN mgr.refs) \ gone : mgr'.refs[t] = mgr.refs[t]
             /\ mgr'.iThreatContainer = Without(mgr.iThreatContainer, gone)
             /\ mgr'.iThreatOfflineContainer = Without(mgr.iThreatOfflineContainer, gone)
    ]_vars

\* The sweep has removed a far target and left a near one with threat, held by
\* the unreachable container, in place.
C11_Witness ==
    /\ last.op = "DeleteOutOfRangeReferences"
    /\ last.arg >= 1
    /\ \E far \in last.units, near \in Units \ last.units :
          /\ ~HasRef(mgr, far)
          /\ HasRef(mgr, near)
          /\ Offline(near)
          /\ mgr.refs[near].iThreat > 0


\* ------------------------------------------- the client update countdown

\* The milliseconds passed that isNeedUpdateToClient is called with.
Elapsed == {0, 500, 1500, 2000, 2500}

\* last.pre is the countdown the call found.
IsNeedUpdateToClient ==
    \E time \in Elapsed :
        LET r == isNeedUpdateToClient(mgr, time)
        IN /\ mgr' = r.m
           /\ last' = [Called("isNeedUpdateToClient", NULL, time, mgr.iUpdateTimer, NULL)
                          EXCEPT !.ret = r.ret]
           /\ UNCHANGED world

NextTimer ==
    \/ RefManagerAddThreat
    \/ RefSetOnlineOfflineState
    \/ ClearReferences
    \/ IsNeedUpdateToClient

SpecTimer == Init /\ [][NextTimer]_vars

\* C12: isNeedUpdateToClient(elapsed) returns false and leaves the countdown as
\* it is whenever the reachable container is empty; otherwise it returns true
\* exactly when elapsed reaches or exceeds the countdown, which is then reset to
\* the interval, and else takes elapsed off the countdown.
C12_NeedUpdateToClient ==
    /\ mgr.iUpdateTimer \in 1..THREAT_UPDATE_INTERVAL
    /\ last.op = "isNeedUpdateToClient" =>
          IF mgr.iThreatContainer = <<>>
          THEN ~last.ret /\ mgr.iUpdateTimer = last.pre
          ELSE /\ last.ret <=> last.arg >= last.pre
               /\ mgr.iUpdateTimer = IF last.ret THEN THREAT_UPDATE_INTERVAL
                                      ELSE last.pre - last.arg

\* A call on an empty reachable container, with a reference in the other one,
\* returned false although the time passed exceeds a countdown already run down.
C12_Witness ==
    /\ last.op = "isNeedUpdateToClient"
    /\ mgr.iThreatContainer = <<>>
    /\ mgr.iThreatOfflineContainer # <<>>
    /\ last.pre < THREAT_UPDATE_INTERVAL
    /\ last.arg >= last.pre
    /\ ~last.ret


\* ------------------------------------------------ the calls addThreat rejects

\* addThreat(victim, ...) in the circumstances e is one of the rejected calls:
\* the target is the owner, is missing or a game master, or the target or the
\* owner is not alive.
Rejected(victim, e) ==
    \/ victim = Owner
    \/ victim = NULL
    \/ victim \in e.GameMaster
    \/ victim \notin e.Alive
    \/ Owner \notin e.Alive

\* C13: in every state the manager can be in, a rejected call of addThreat
\* returns with both containers, every reference, the current victim and the
\* dirty flag as they were; and the owner never has a reference to itself.
C13_RejectedAddThreat ==
    /\ Owner \notin DOMAIN mgr.refs
    /\ ~ListHas(mgr.iThreatContainer, Owner)
    /\ ~ListHas(mgr.iThreatOfflineContainer, Owner)
    /\ \A victim \in Units \cup {NULL, Owner}, threat \in RawThreats :
          \A c \in AddCallsOf[victim] :
              Rejected(victim, c.e) =>
                  addThreat(mgr, victim, threat, c.crit, c.spell, c.assist, c.e) = mgr

\* addThreat was called with the owner as target on a manager that tracks
\* every unit, has a victim and a dirty list: nothing has changed, and there is
\* no reference to the owner.
C13_Witness ==
    /\ last.op = "addThreat"
    /\ last.unit = Owner
    /\ last.arg > 0
    /\ mgr.iCurrentVictim # NULL
    /\ mgr.iDirty
    /\ Len(mgr.iThreatContainer) = NumUnits
    /\ Owner \notin DOMAIN mgr.refs


\* ------------------------------------------------------------ the lookups

\* last.arg is the threat returned, last.pre the threat of the target's
\* reference (-1 without one).
GetThreat ==
    \E victim \in Units \cup {NULL}, alsoSearchOfflineList \in BOOLEAN :
        \E r \in getThreat(mgr, victim, alsoSearchOfflineList) :
            /\ last' = [Called("getThreat", victim, r.threat, ThreatOf(mgr, victim), NULL)
                           EXCEPT !.fault = r.fault, !.flag = alsoSearchOfflineList]
            /\ UNCHANGED <<mgr, world>>

HasThreatCall ==
    \E victim \in Units \cup {NULL}, alsoSearchOfflineList \in BOOLEAN :
        /\ last' = [Called("HasThreat", victim, 0, ThreatOf(mgr, victim), NULL)
                       EXCEPT !.ret = HasThreat(mgr, victim, alsoSearchOfflineList),
                              !.flag = alsoSearchOfflineList]
        /\ UNCHANGED <<mgr, world>>

NextLookup ==
    \/ RefManagerAddThreat
    \/ RefSetOnlineOfflineState
    \/ GetThreat
    \/ HasThreatCall

SpecLookup == Init /\ [][NextLookup]_vars

\* C14 as the claim states it: a lookup (getThreat or HasThreat, searching the
\* unreachable container or not) of a target without a reference in either
\* container never fails and returns the neutral result, 0 or false.
C14_AsStated ==
    (last.op \in {"getThreat", "HasThreat"} /\ last.pre = -1)
        => (~last.fault /\ last.arg = 0 /\ ~last.ret)

\* What the code does keep of C14: the lookups that do not take the faulty
\* branch return the neutral result for an unknown target, and a known target's
\* threat is returned whichever container holds its reference.
C14_LookupsElsewhere ==
    /\ (last.op = "HasThreat" /\ last.pre = -1) => ~last.ret
    /\ (last.op = "getThreat" /\ last.pre = -1 /\ ~last.flag)
          => (~last.fault /\ last.arg = 0)
    /\ (last.op = "getThreat" /\ last.pre >= 0 /\ last.flag)
          => (~last.fault /\ last.arg = last.pre)

\* getThreat was asked, with the unreachable container included, for a unit
\* that has no reference while another unit has one, and went through the null
\* pointer.
C14_Witness ==
    /\ last.op = "getThreat"
    /\ last.flag
    /\ last.unit \in Units
    /\ last.pre = -1
    /\ last.fault
    /\ mgr.iThreatOfflineContainer # <<>>


\* ------------------------------------------------ the fade-out round trip

\* What a delta leaves of a threat value (HostileReference::addThreat).
Clamp(x) == IF x < 0 THEN 0 ELSE x

\* A fade-out reduction is applied; it is followed from the threat the
\* reference holds now.
FadeSet ==
    \E value \in Deltas :
        /\ HasRef(mgr, TheUnit)
        /\ mgr' = setFadeoutThreatReduction(mgr, TheUnit, value, {})
        /\ RefThreatBounded(mgr')
        /\ last' = [Called("setFadeoutThreatReduction", TheUnit, value,
                         ThreatOf(mgr, TheUnit), NULL)
                       EXCEPT !.trip = [base |-> ThreatOf(mgr, TheUnit),
                                        clamped |-> ThreatOf(mgr, TheUnit) + value < 0]]
        /\ UNCHANGED world

\* Another delta reaches the reference while the reduction is in effect.
FadeDelta ==
    \E mod \in Deltas :
        /\ HasRef(mgr, TheUnit)
        /\ last.trip.base >= 0
        /\ last.op # "resetFadeoutThreatReduction"
        /\ mgr' = RefAddThreat(mgr, TheUnit, mod, {})
        /\ RefThreatBounded(mgr')
        /\ last.trip.base + mod <= MaxRefThreat
        /\ last' = [Called("HostileReference::addThreat", TheUnit, mod,
                         ThreatOf(mgr, TheUnit), NULL)
                       EXCEPT !.trip = [base |-> Clamp(last.trip.base + mod),
                                        clamped |-> \/ last.trip.clamped
                                                    \/ last.trip.base + mod < 0
                                                    \/ ThreatOf(mgr, TheUnit) + mod < 0]]
        /\ UNCHANGED world

\* The reduction is reversed.
FadeReset ==
    /\ HasRef(mgr, TheUnit)
    /\ last.trip.base >= 0
    /\ last.op # "resetFadeoutThreatReduction"
    /\ mgr' = resetFadeoutThreatReduction(mgr, TheUnit, {})
    /\ RefThreatBounded(mgr')
    /\ last' = [Called("resetFadeoutThreatReduction", TheUnit,
                     -mgr.refs[TheUnit].iFadeoutThreadReduction,
                     ThreatOf(mgr, TheUnit), NULL)
                   EXCEPT !.trip = last.trip]
    /\ UNCHANGED world

NextFade == \/ RefManagerAddThreat \/ FadeSet \/ FadeDelta \/ FadeReset
SpecFade == Init /\ [][NextFade]_vars

\* C15 as the claim states it: after a fade-out reduction has been applied and
\* reversed, the reference holds the threat that the deltas made in between
\* would have produced alone (its threat before the reduction when there were
\* none), whatever the amount of the reduction.
C15_AsStated ==
    (last.op = "resetFadeoutThreatReduction" /\ last.trip.base >= 0)
        => mgr.refs[last.unit].iThreat = last.trip.base

\* C15 where no delta stopped at zero: the reduction and the deltas after it
\* were applied in full, and the reversal returns the reference to the threat
\* the other deltas alone would have produced.
C15_ExactWithoutClamp ==
    (last.op = "resetFadeoutThreatReduction" /\ last.trip.base >= 0
        /\ ~last.trip.clamped)
        => mgr.refs[last.unit].iThreat = last.trip.base

\* A negative reduction larger than the threat was applied and reversed with
\* nothing in between, and the reference now holds more than it did before.
C15_Witness ==
    /\ last.op = "resetFadeoutThreatReduction"
    /\ last.trip.base >= 1
    /\ last.trip.clamped
    /\ last.pre = 0
    /\ last.arg > last.trip.base
    /\ mgr.refs[last.unit].iThreat = last.arg


\* ------------------------------------------------------------ redirection

\* The calls of addThreat on victim whose target has redirectedTarget as
\* threat redirection target (or none, NULL); the victim and the owner are
\* alive, so that the call gets as far as the adjusted amount.
RedirectCalls(victim, redirectedTarget) ==
    {Call([CalmEnv EXCEPT
              !.ThreatRedirectionTarget = [NoOne EXCEPT ![victim] = redirectedTarget],
              !.IgnoringMisdirection = (how = "ignored"),
              !.Alive = IF how = "dead" /\ redirectedTarget \in Units
                        THEN AllUnits \ {redirectedTarget} ELSE AllUnits,
              !.TotalThreatModifier = mod],
          FALSE, spell, FALSE) :
        how \in {"redirected", "ignored", "dead"}, mod \in {1, 2},
        spell \in {"none", "spell", "no_threat"}}

\* The condition of ThreatManager::addThreat under which the amount goes to
\* the redirection target.
Redirects(victim, calculatedThreat, e) ==
    /\ calculatedThreat > 0
    /\ ~e.IgnoringMisdirection
    /\ e.ThreatRedirectionTarget[victim] # NULL
    /\ e.ThreatRedirectionTarget[victim] # Owner
    /\ e.ThreatRedirectionTarget[victim] \in e.Alive

\* last.arg is the adjusted amount, last.victim the redirection target,
\* last.flag whether the spell carries SPELL_ATTR_EX_NO_THREAT, last.ret
\* whether the condition of redirection held.
AddThreatRedirected ==
    \E victim \in Units, threat \in RawThreats :
        \E redirectedTarget \in (AllUnits \ {victim}) \cup {NULL} :
            \E c \in RedirectCalls(victim, redirectedTarget) :
                LET a == CalcThreat(victim, threat, c.crit, c.spell, c.assist, c.e)
                IN  /\ mgr' = addThreat(mgr, victim, threat, c.crit, c.spell, c.assist, c.e)
                    /\ ThreatBounded(mgr')
                    /\ last' = [Called("addThreat", victim, a, ThreatOf(mgr, victim),
                                     redirectedTarget)
                                   EXCEPT !.flag = (c.spell = "no_threat"),
                                          !.ret = Redirects(victim, a, c.e)]
                    /\ UNCHANGED world

NextRedirect == AddThreatRedirected \/ UpdateOnlineStatus
SpecRedirect == Init /\ [][NextRedirect]_vars

\* The threat a unit counts for: that of its reference, nothing without one.
Held(m, u) == IF HasRef(m, u) THEN m.refs[u].iThreat ELSE 0

StaysUntracked == last'.flag /\ ~HasRef(mgr, last'.unit)

InOrder(m, w) ==
    \A i, j \in 1..Len(m.iThreatContainer) :
        i < j => ~SortsBefore(m, w, w.IsIgnoringRangedTargets, w.OwnerIsPlayer,
                              m.iThreatContainer[j], m.iThreatContainer[i])

\* The scan of m's list in world w gets as far as position i.
ScanReaches(m, w, i) ==
    \A k \in 1..(i - 1) :
        ScanStep(m, w, m.iCurrentVictim, m.iThreatContainer[k]) = "skip"

SameRankAndState(m, c, d) ==
    /\ m.refs[c].m_tauntState = m.refs[d].m_tauntState
    /\ m.refs[c].m_hostileState = m.refs[d].m_hostileState

\* The dimensions the comparator adds for a player owner and for an owner
\* restricted to melee do not tell c and d apart.
SameOptional(w, c, d) ==
    /\ w.OwnerIsPlayer => /\ w.IsPlayer[c] = w.IsPlayer[d]
                          /\ w.CanAttack[c] = w.CanAttack[d]
    /\ w.IsIgnoringRangedTargets
          => w.CanReachWithMeleeAttack[c] = w.CanReachWithMeleeAttack[d]

\* Once the scan has met an entry with no more than 110% of the victim's
\* threat, no later entry like it (as like tells) has more than that.
NoneBetterLater(m, w, like(_, _)) ==
    m.iCurrentVictim # NULL =>
        \A i, j \in 1..Len(m.iThreatContainer) :
            LET c == m.iThreatContainer[i]
                d == m.iThreatContainer[j]
                v == m.iCurrentVictim
            IN ( /\ i < j
                 /\ ScanReaches(m, w, i)
                 /\ 10 * m.refs[c].iThreat <= 11 * m.refs[v].iThreat
                 /\ like(c, d) )
               => 10 * m.refs[d].iThreat <= 11 * m.refs[v].iThreat

\* update sorts the list for world w.
Sorts(m, w) == m.iDirty \/ w.IsIgnoringRangedTargets \/ w.OwnerIsPlayer

Exhausted ==
    \A i \in 1..Len(Scanned) :
        ScanStep(mgr, world, last.victim, Scanned[i]) = "skip"

\* C18 as the claim states it: when the scan of getHostileTarget passes over
\* every entry while there is a current victim, the current victim is what it
\* was before the call.
C18_AsStated ==
    (HadVictim /\ Exhausted) => Selected = last.victim

\* C18: when the scan of getHostileTarget passes over every entry while there
\* is a current victim, the owner is restricted to melee-range targets, no entry
\* (the victim included) is within melee reach, and the call leaves the
\* manager without a current victim.
C18_ExhaustedClearsVictim ==
    (HadVictim /\ Exhausted) =>
        /\ Selected = NULL
        /\ world.IsIgnoringRangedTargets
        /\ \A u \in Members(Scanned) : ~InMelee(u)

\* The scan passed over the victim and another entry, both out of melee
\* reach, and the manager has no current victim any more.
C18_Witness ==
    /\ HadVictim
    /\ Exhausted
    /\ Len(Scanned) = 2
    /\ ListHas(Scanned, last.victim)
    /\ Selected = NULL


\* --------------------------------------------------- taunt and fixation

MaxAuras == 2

\* The lists of taunt auras on the owner, by caster.
TauntAuraLists == UNION {[1..n -> Units] : n \in 0..MaxAuras}

\* Threat for a unit in calm circumstances, which creates its reference.
AddThreatCalm ==
    \E victim \in Units :
        /\ mgr' = addThreat(mgr, victim, 1, FALSE, "none", FALSE, CalmEnv)
        /\ ThreatBounded(mgr')
        /\ last' = Called("addThreat", victim, 1, ThreatOf(mgr, victim), NULL)
        /\ UNCHANGED world

TauntUpdateCall ==
    \E tauntAuras \in TauntAuraLists, detaunted \in SUBSET Units :
        /\ mgr' = TauntUpdate(mgr, tauntAuras, detaunted)
        /\ last' = Called("TauntUpdate", NULL, Len(tauntAuras), -1, NULL)
        /\ UNCHANGED world

FixateTargetCall ==
    \E victim \in Units \cup {NULL} :
        \E tauntAuras \in TauntAuraLists, detaunted \in SUBSET Units :
            /\ mgr' = FixateTarget(mgr, victim, tauntAuras, detaunted)
            /\ last' = Called("FixateTarget", victim, Len(tauntAuras), -1, NULL)
            /\ UNCHANGED world

NextTaunt ==
    \/ AddThreatCalm
    \/ UpdateOnlineStatus
    \/ TauntUpdateCall
    \/ FixateTargetCall

SpecTaunt == Init /\ [][NextTaunt]_vars

Fixated(m) == {u \in DOMAIN m.refs : m.refs[u].m_tauntState = STATE_FIXATED}

\* TauntUpdate, on its own or at the end of FixateTarget, leaves the rank of
\* every reference that was fixated when it began: every reference fixated
\* before a TauntUpdate, and the target or nothing after a FixateTarget.
FixationIsSticky ==
    /\ last'.op = "TauntUpdate" => Fixated(mgr) \subseteq Fixated(mgr')
    /\ last'.op = "FixateTarget" =>
          \A u \in Fixated(mgr) \ Members(mgr.iThreatContainer) : u \in Fixated(mgr')

\* C19 as the claim states it: after FixateTarget(t) the reference of t, if
\* there is one, is FIXATED and no other reference of either container is; at
\* most one reference is FIXATED at any time; TauntUpdate leaves the rank of
\* every FIXATED reference.
C19_AsStated ==
    /\ [](last.op = "FixateTarget" =>
            /\ HasRef(mgr, last.unit) => last.unit \in Fixated(mgr)
            /\ Fixated(mgr) \subseteq {last.unit})
    /\ [](Cardinality(Fixated(mgr)) <= 1)
    /\ [][last'.op = "TauntUpdate" => Fixated(mgr) \subseteq Fixated(mgr')]_vars

\* C19 within the reachable container: after FixateTarget(t) the reference of
\* t, if it is in the reachable container, is FIXATED and no other reference
\* of the reachable container is; TauntUpdate and FixateTarget leave the rank
\* of every unreachable reference, and TauntUpdate that of every FIXATED one.
C19_FixationInReachable ==
    /\ [](last.op = "FixateTarget" =>
            /\ ListHas(mgr.iThreatContainer, last.unit) => last.unit \in Fixated(mgr)
            /\ Fixated(mgr) \cap Members(mgr.iThreatContainer) \subseteq {last.unit})
    /\ [][FixationIsSticky]_vars
    /\ [][last'.op \in {"TauntUpdate", "FixateTarget"} =>
             \A u \in Members(mgr.iThreatOfflineContainer) :
                 mgr'.refs[u].m_tauntState = mgr.refs[u].m_tauntState]_vars

\* FixateTarget has fixated a reachable reference while the other unit's
\* reference, fixated earlier, sits in the unreachable container with its
\* fixation: two references are FIXATED.
C19_Witness ==
    /\ last.op = "FixateTarget"
    /\ ListHas(mgr.iThreatContainer, last.unit)
    /\ last.unit \in Fixated(mgr)
    /\ \E u \in Members(mgr.iThreatOfflineContainer) : u \in Fixated(mgr)
    /\ Cardinality(Fixated(mgr)) = 2


\* ------------------------------------------------ suppression and its toggle

\* supp: the units for which owner->IsSuppressedTarget holds during the call
\* (kept in last.units); last.arg is how deep the calls of processThreatEvent
\* nested during the call.
SetTargetSuppressedCall ==
    \E target \in Units \cup {NULL}, supp \in SUBSET Units :
        /\ mgr' = SetTargetSuppressed(mgr, target, supp)
        /\ last' = [Called("SetTargetSuppressed", target,
                         IF ListHas(mgr.iThreatContainer, target)
                         THEN SetHostileStateDepth(mgr, target, STATE_SUPPRESSED, supp)
                         ELSE 0,
                         ThreatOf(mgr, target), NULL)
                       EXCEPT !.units = supp]
        /\ UNCHANGED world

\* A delta for a reference, applied by HostileReference::addThreat.
SuppressedAddThreat ==
    \E t \in DOMAIN mgr.refs, mod \in Deltas, supp \in SUBSET Units :
        /\ mgr' = RefAddThreat(mgr, t, mod, supp)
        /\ ThreatBounded(mgr')
        /\ last' = Called("HostileReference::addThreat", t, mod, ThreatOf(mgr, t), NULL)
        /\ UNCHANGED world

\* last.arg is the state asked for.
SetHostileStateCall ==
    \E t \in DOMAIN mgr.refs, state \in {STATE_SUPPRESSED, STATE_NORMAL},
       supp \in SUBSET Units :
        /\ mgr' = SetHostileState(mgr, t, state, supp)
        /\ last' = Called("SetHostileState", t, state, ThreatOf(mgr, t), NULL)
        /\ UNCHANGED world

NextSuppress ==
    \/ AddThreatCalm
    \/ UpdateOnlineStatus
    \/ SetTargetSuppressedCall
    \/ SuppressedAddThreat
    \/ SetHostileStateCall

SpecSuppress == Init /\ [][NextSuppress]_vars

Armed(m, t) == m.refs[t].m_suppresabilityToggle
Suppressed(m, t) == m.refs[t].m_hostileState = STATE_SUPPRESSED

\* What a call of HostileReference::addThreat on last'.unit does to the
\* suppression: with the toggle armed and a delta that changes the threat, the
\* reference is NORMAL and disarmed; with a delta that changes nothing, or with
\* the toggle not armed, state and toggle are what they were.
AddThreatOnSuppressed ==
    last'.op = "HostileReference::addThreat" =>
        LET t == last'.unit
        IN IF Armed(mgr, t) /\ mgr'.refs[t].iThreat # mgr.refs[t].iThreat
           THEN ~Suppressed(mgr', t) /\ ~Armed(mgr', t)
           ELSE /\ Suppressed(mgr', t) = Suppressed(mgr, t)
                /\ Armed(mgr', t) = Armed(mgr, t)

\* C20 as the claim states it: after SetTargetSuppressed(t) on a reachable
\* reference the reference is SUPPRESSED and its toggle armed; addThreat with
\* an effective delta other than zero on an armed reference makes it NORMAL
\* and disarms it, with an effective delta of zero it leaves state and toggle,
\* and it never changes the state of a reference that is not armed; every call
\* of SetHostileState leaves the reference disarmed.
C20_AsStated ==
    /\ []((last.op = "SetTargetSuppressed" /\ ListHas(mgr.iThreatContainer, last.unit))
            => Suppressed(mgr, last.unit) /\ Armed(mgr, last.unit))
    /\ [][AddThreatOnSuppressed]_vars
    /\ [][last'.op = "SetHostileState" => ~Armed(mgr', last'.unit)]_vars

\* No reachable reference other than t is SUPPRESSED while the owner does
\* not hold its target for suppressed.
NoneToClear(m, t, supp) ==
    \A u \in Members(m.iThreatContainer) \ {t} : Suppressed(m, u) => u \in supp

\* C20 without the cascade: SetTargetSuppressed(t) on a reachable reference
\* arms its toggle, and leaves it SUPPRESSED when it was SUPPRESSED already,
\* when the owner holds t for suppressed, or when no other reachable reference
\* is there for the status event to clear; what addThreat and SetHostileState
\* do to state and toggle is as the claim says.
C20_SuppressionToggle ==
    /\ [][(last'.op = "SetTargetSuppressed" /\ ListHas(mgr.iThreatContainer, last'.unit))
            => /\ Armed(mgr', last'.unit)
               /\ ( \/ Suppressed(mgr, last'.unit)
                    \/ last'.unit \in last'.units
                    \/ NoneToClear(mgr, last'.unit, last'.units) )
                  => Suppressed(mgr', last'.unit)]_vars
    /\ [][AddThreatOnSuppressed]_vars
    /\ [][last'.op = "SetHostileState" => ~Armed(mgr', last'.unit)]_vars

\* SetTargetSuppressed was called on a reachable reference while the other
\* reachable reference was SUPPRESSED: both are NORMAL now, and the toggle of
\* the target is armed.
C20_Witness ==
    /\ last.op = "SetTargetSuppressed"
    /\ ListHas(mgr.iThreatContainer, last.unit)
    /\ Len(mgr.iThreatContainer) = 2
    /\ \A u \in Members(mgr.iThreatContainer) : ~Suppressed(mgr, u)
    /\ Armed(mgr, last.unit)


\* ------------------------------------------------- nesting of the dispatch

\* The reachable references other than t that the status event of t resets:
\* SUPPRESSED, and not held for suppressed by the owner.
ToClear(m, t, supp) ==
    {u \in Members(m.iThreatContainer) \ {t} : Suppressed(m, u) /\ u \notin supp}

\* C21 as the claim states it: while processThreatEvent handles an event, no
\* further event reaches it: during SetTargetSuppressed the calls of
\* processThreatEvent never nest.
C21_AsStated ==
    last.op = "SetTargetSuppressed" => last.arg <= 1

\* C21: the dispatch of SUPPRESSED_STATUS nests, and ends.  During
\* SetTargetSuppressed(t) on a reachable reference that was not SUPPRESSED,
\* processThreatEvent is entered once when there is no other reference for the
\* event to reset, and otherwise again from inside ClearSuppressed for every
\* reference that is reset, to a depth of at most one more than the number of
\* reachable references; every reference other than t that was to be reset
\* is NORMAL afterwards and every reference that the owner holds for
\* suppressed keeps its state.  A call that does not change the state of a
\* reference emits nothing.
C21_DispatchNests ==
    [][last'.op = "SetTargetSuppressed" =>
          LET t == last'.unit
              supp == last'.units
          IN IF ListHas(mgr.iThreatContainer, t) /\ ~Suppressed(mgr, t)
             THEN /\ last'.arg >= 1
                  /\ last'.arg <= Len(mgr.iThreatContainer) + 1
                  /\ (last'.arg = 1) = (ToClear(mgr, t, supp) = {})
                  /\ \A u \in ToClear(mgr, t, supp) : ~Suppressed(mgr', u)
                  /\ \A u \in (DOMAIN mgr.refs \cap supp) \ {t} :
                        Suppressed(mgr', u) = Suppressed(mgr, u)
             ELSE last'.arg = 0]_vars

\* SetTargetSuppressed was called while the other reachable reference was
\* SUPPRESSED: the event of the target reset the other reference from inside
\* the dispatcher, whose event reset the target in turn, three calls deep.
C21_Witness ==
    /\ last.op = "SetTargetSuppressed"
    /\ ListHas(mgr.iThreatContainer, last.unit)
    /\ Len(mgr.iThreatContainer) = 2
    /\ last.arg = 3
    /\ \A u \in Members(mgr.iThreatContainer) : ~Suppressed(mgr, u)


\* ------------------------------------------------ selection, twice in a row

\* A call of getHostileTarget that follows another with nothing in between.
SecondCall == last.op = "getHostileTarget" /\ last'.op = "getHostileTarget"

\* C22 as the claim states it: a call of getHostileTarget that follows another
\* with nothing in between returns the victim that the first one returned.
C22_AsStated ==
    [][SecondCall => mgr'.iCurrentVictim = mgr.iCurrentVictim]_vars

\* The reachable references stand alike: the same taunt rank and hostile
\* state, all players or none, all attackable by the owner or none.
StandAlike(m, w) ==
    \A c, d \in Members(m.iThreatContainer) :
        /\ SameRankAndState(m, c, d)
        /\ w.IsPlayer[c] = w.IsPlayer[d]
        /\ w.CanAttack[c] = w.CanAttack[d]

\* The first call returned none, or the first reference of the container, which
\* the owner may attack where it stands.
HeadOrNone(m, w) ==
    \/ m.iCurrentVictim = NULL
    \/ /\ m.iThreatContainer # <<>>
       /\ m.iCurrentVictim = Head(m.iThreatContainer)
       /\ (~w.IsIgnoringRangedTargets \/ w.CanReachWithMeleeAttack[m.iCurrentVictim])

\* C22: a call of getHostileTarget that follows another with nothing in between
\* returns the victim that the first one returned, when the reachable
\* references stand alike (in taunt rank, hostile state, player status and
\* attackability), or when the first call returned none or the first reference
\* of the container within the owner's reach.
C22_StableAmongEquals ==
    [][(SecondCall /\ (StandAlike(mgr, world) \/ HeadOrNone(mgr, world)))
          => mgr'.iCurrentVictim = mgr.iCurrentVictim]_vars

\* A second call in a row has kept a victim that is not the first reference of
\* the container, among references that stand alike, one of which holds more
\* threat than the victim.
C22_Witness ==
    /\ last.op = "getHostileTarget"
    /\ last.arg = 1
    /\ last.victim # NULL
    /\ mgr.iCurrentVictim = last.victim
    /\ StandAlike(mgr, world)
    /\ Head(mgr.iThreatContainer) # mgr.iCurrentVictim
    /\ \E u \in Members(mgr.iThreatContainer) :
           mgr.refs[u].iThreat > mgr.refs[mgr.iCurrentVictim].iThreat


\* ------------------------------------------------- selection finds a target

\* The reachable container holds a reference the owner may take: any reference
\* for an unrestricted owner, one in melee range for a restricted owner.
Eligible(m, w) ==
    /\ m.iThreatContainer # <<>>
    /\ \/ ~w.IsIgnoringRangedTargets
       \/ \E u \in Members(m.iThreatContainer) : w.CanReachWithMeleeAttack[u]

\* C23 as the claim states it: when the reachable container is not empty and
\* the owner is not restricted to melee-range targets, or a reachable reference
\* is in melee range, getHostileTarget returns a target, which becomes the
\* current victim; on an empty reachable container it returns none and the
\* current victim is null.
C23_AsStated ==
    [][last'.op = "getHostileTarget"
          => /\ Eligible(mgr, world)
                   => (~last'.fault /\ mgr'.iCurrentVictim # NULL)
             /\ mgr.iThreatContainer = <<>>
                   => (~last'.fault /\ mgr'.iCurrentVictim = NULL)]_vars

\* C23: when the reachable container is not empty and the owner is not
\* restricted to melee-range targets, or a reachable reference is in melee
\* range, getHostileTarget returns a target, which becomes the current victim
\* and is a reference of the reachable container. The call stops the program
\* only on an empty reachable container, where it returns none with the
\* current victim null when it returns.
C23_ReturnsEligible ==
    [][last'.op = "getHostileTarget"
          => /\ Eligible(mgr, world)
                   => /\ ~last'.fault
                      /\ mgr'.iCurrentVictim # NULL
                      /\ mgr'.iCurrentVictim = last'.unit
                      /\ mgr'.iCurrentVictim \in Members(mgr.iThreatContainer)
             /\ last'.fault => mgr.iThreatContainer = <<>>
             /\ mgr.iThreatContainer = <<>>
                   => /\ mgr'.iCurrentVictim = NULL
                      /\ last'.unit = NULL]_vars

\* getHostileTarget of a melee-restricted owner, whose victim stood out of
\* melee range, has returned another reference, one in melee range that is not
\* the first of the container.
C23_Witness ==
    /\ last.op = "getHostileTarget"
    /\ ~last.fault
    /\ last.victim # NULL
    /\ world.IsIgnoringRangedTargets
    /\ ~InMelee(last.victim)
    /\ mgr.iCurrentVictim \notin {NULL, last.victim}
    /\ InMelee(mgr.iCurrentVictim)
    /\ Head(mgr.iThreatContainer) # mgr.iCurrentVictim


\* ------------------------------------------------ the assertion of the scan

\* C24: every reference of the reachable container is marked online and
\* resolves to a live target, so that the scan of getHostileTarget, whatever
\* the owner and the positions of the targets, never fails its assertion.
C24_OnlineResolves ==
    /\ \A t \in Members(mgr.iThreatContainer) :
           /\ HasRef(mgr, t)
           /\ mgr.refs[t].m_online
           /\ mgr.refs[t].valid
    /\ \A w \in Worlds :
           selectNextVictim(UpdateContainers(mgr, w), w, mgr.iCurrentVictim)
               # ASSERT_FAILED

\* getHostileTarget has returned a target while the manager holds another
\* reference whose target was destroyed: that one is out of the reachable
\* container.
C24_Witness ==
    /\ last.op = "getHostileTarget"
    /\ mgr.iCurrentVictim # NULL
    /\ \E t \in DOMAIN mgr.refs :
           /\ ~mgr.refs[t].valid
           /\ Offline(t)
           /\ ~Online(t)

====
